---------------------------- MODULE Spec2Model ----------------------------
(***************************************************************************)
(* Conditional escrow: the escrow Ledger (EscrowManagerMainnetDemo), the   *)
(* Receiver (EscrowExecReceiver), the Attestation Store (api/server.ts)    *)
(* and the Settlement Bridge (eth-condition/main.ts).                      *)
(***************************************************************************)
EXTENDS Integers, Sequences, FiniteSets, TLC

VARIABLES
    now,            \* block.timestamp
    owner,          \* Ownable owner of the Ledger
    nextId,         \* EscrowManagerMainnetDemo.nextId
    agreements,     \* mapping(uint256 => Types.Agreement)
    conditionImpl,  \* mapping(uint8 => address)
    protocolFeeBps, \* EscrowManagerMainnetDemo.protocolFeeBps
    feeRecipient,   \* EscrowManagerMainnetDemo.feeRecipient
    balances,       \* WETH balances
    receipt,        \* receipt of the last chain transaction: caller, status, events
    paid,           \* history: number of transfers of `amount` to the payee, per id
    forwarder,      \* EscrowExecReceiver.forwarder (immutable)
    config,         \* DemoConfig._cfg
    tasks,          \* the store's table `tasks`, keyed by <<chain_id, agreement_id>>
    req,            \* GET /tasks/:chainId/:agreementId requests in progress, per client
    disputes,       \* history: the POST /tasks/dispute calls answered ok, by key, and whether a row was set
    signals,        \* EscrowSignal logs emitted by the Ledger
    handlers,       \* onLog invocations of the bridge workflow
    writes,         \* reports submitted through writeReport
    delivered,      \* history: deliveries of each submitted report by the forwarder
    sample          \* input tuple of the canonical-message check

ledgerVars == <<now, owner, nextId, agreements, conditionImpl, protocolFeeBps,
                feeRecipient, balances, receipt, paid, forwarder, signals>>
storeVars  == <<tasks, req, disputes>>
bridgeVars == <<handlers, writes, delivered>>
vars == <<ledgerVars, config, storeVars, bridgeVars, sample>>

---------------------------------------------------------------------------
(* Bounds of the model *)
MaxTime == 2
MaxAgreements == 2
MaxBridged == 1
MaxDeliveries == 2
PayerFunds == 207

---------------------------------------------------------------------------
(* Addresses and strings.  A hex string is a literal; the mixed-case        *)
(* spellings of the same bytes are distinct literals that toLowerCase maps  *)
(* to one.                                                                  *)
NullAddr == "0x00"
OwnerAddr == "0x0a"
PayerAddr == "0x0b"
PayeeAddr == "0x0c"
PayeeAddrMixed == "0x0C"
MalloryAddr == "0x0d"
ForwarderAddr == "0x0f"
EscrowAddr == "0xe5"
TimeConditionAddr == "0x7c"
NeverConditionAddr == "0x7d"
DemoConfigAddr == "0xdc"
DemoConfigAddrMixed == "0xDC"
UnknownAddr == "0x99"
WorkTx == "0xaa"
WorkTxMixed == "0xAA"
NotHex == "zz"

AddressStrings == {NullAddr, OwnerAddr, PayerAddr, PayeeAddr, PayeeAddrMixed,
                   MalloryAddr, ForwarderAddr, EscrowAddr, TimeConditionAddr,
                   DemoConfigAddr, DemoConfigAddrMixed, UnknownAddr}
TxHashStrings == {WorkTx, WorkTxMixed}

toLowerCase(s) ==
    CASE s = PayeeAddrMixed -> PayeeAddr
      [] s = DemoConfigAddrMixed -> DemoConfigAddr
      [] s = WorkTxMixed -> WorkTx
      [] OTHER -> s

isAddress(addr) == addr \in AddressStrings
isTxHash(h) == h \in TxHashStrings

(* Decimal strings and the integers they denote (BigInt(s)).  "" is the     *)
(* empty string, which /^\d+$/ rejects.                                     *)
DecimalStrings == {"0", "1", "2", "7", "07"}
BigInt(s) ==
    CASE s = "0" -> 0
      [] s = "1" -> 1
      [] s = "2" -> 2
      [] s = "7" -> 7
      [] s = "07" -> 7
toString(n) ==
    CASE n = 0 -> "0"
      [] n = 1 -> "1"
      [] n = 2 -> "2"
      [] n = 7 -> "7"
toBigIntString(x) == IF x \in DecimalStrings THEN x ELSE "null"

---------------------------------------------------------------------------
(* Canonical messages.  A message is the sequence of its "|"-separated      *)
(* parts, a part being the tag or <<name, value>> for name=value; no value  *)
(* contains "|" or "=", so two messages are the same string exactly when    *)
(* they are the same sequence.                                              *)
Tag == "JiffyEscrowComplete"

ServerBuildCompletionMessage(p) ==
    << Tag,
       <<"chainId", p.chainId>>,
       <<"agreementId", p.agreementId>>,
       <<"target", toLowerCase(p.target)>>,
       <<"key", p.key>>,
       <<"value", p.value>>,
       <<"txHash", toLowerCase(p.txHash)>>,
       <<"completedAt", p.completedAt>> >>

BridgeBuildCompletionMessage(task) ==
    << Tag,
       <<"chainId", task.chainId>>,
       <<"agreementId", task.agreementId>>,
       <<"txHash", task.txHash>>,
       <<"completedAt", task.completedAt>> >>

(* scripts/completeTask.ts: the worker's script.  It lowercases target and  *)
(* txHash, normalises key and value through BigInt(..).toString(), signs    *)
(* the message and posts the same normalised fields.                        *)
SignerFields(in) ==
    [ chainId |-> 1,
      agreementId |-> in.agreementId,
      target |-> toLowerCase(in.target),
      key |-> toString(BigInt(in.key)),
      value |-> toString(BigInt(in.value)),
      txHash |-> toLowerCase(in.txHash),
      completedAt |-> in.completedAt ]

SignerMessage(f) ==
    << Tag,
       <<"chainId", f.chainId>>,
       <<"agreementId", f.agreementId>>,
       <<"target", f.target>>,
       <<"key", f.key>>,
       <<"value", f.value>>,
       <<"txHash", f.txHash>>,
       <<"completedAt", f.completedAt>> >>

---------------------------------------------------------------------------
(* Signatures (EIP-191 signMessage), symbolically: a well-formed signature  *)
(* is the pair of its signer and the message signed.  Recovery over the     *)
(* signed message gives the signer, over any other message an address that  *)
(* nobody holds.                                                            *)
NullSig == [kind |-> "null", signer |-> NullAddr, msg |-> <<>>]
MalformedSig == [kind |-> "malformed", signer |-> NullAddr, msg |-> <<>>]
NotHexSig == [kind |-> "nothex", signer |-> NullAddr, msg |-> <<>>]
signMessage(signer, message) == [kind |-> "ecdsa", signer |-> signer, msg |-> message]

isHex(s) == s.kind \in {"ecdsa", "malformed"}

recoverMessageAddress(message, signature) ==
    IF signature.msg = message THEN signature.signer ELSE UnknownAddr

(* viem verifyMessage: "true", "false", or "throw" for an address or a      *)
(* signature that cannot be decoded.                                        *)
verifyMessage(address, message, signature) ==
    IF ~isAddress(address) \/ signature.kind # "ecdsa" THEN "throw"
    ELSE IF toLowerCase(recoverMessageAddress(message, signature)) = toLowerCase(address)
         THEN "true" ELSE "false"

---------------------------------------------------------------------------
(* DemoConfig: getConfig / setConfig.  Every key reads 0 until it is set.   *)
ConfigKeys == {0, 1, 2, 7}
ConfigValues == {0, 1, 2}

getConfig(key) == config[key]

SetConfig(key, value) ==
    /\ config' = [config EXCEPT ![key] = value]
    /\ UNCHANGED <<ledgerVars, storeVars, bridgeVars, sample>>

---------------------------------------------------------------------------
(* The Attestation Store.  A row of `tasks` holds the columns of the        *)
(* schema; a NULL column is NullStr (text), NoNumber (bigint) or NullSig.   *)
NullStr == "null"
NoNumber == 0 - 1

StoreKey(chainId, agreementId) == <<chainId, agreementId>>

rowToRecord(key, row) ==
    [ chainId |-> key[1],
      agreementId |-> key[2],
      status |-> row.status,
      worker |-> row.worker,
      txHash |-> row.tx_hash,
      completedAt |-> row.completed_at,
      signature |-> row.signature,
      target |-> row.target,
      key |-> row.cfg_key,
      value |-> row.cfg_value ]

NoRecord(chainId, agreementId) ==
    [ chainId |-> chainId,
      agreementId |-> agreementId,
      status |-> "pending",
      worker |-> NullStr,
      txHash |-> NullStr,
      completedAt |-> NoNumber,
      signature |-> NullSig,
      target |-> NullStr,
      key |-> NullStr,
      value |-> NullStr ]

(* if (!rec.worker || !rec.txHash || !rec.completedAt || !rec.signature ||  *)
(*     !rec.target || rec.key == null || rec.value == null)                 *)
MissingFields(rec) ==
    \/ rec.worker = NullStr
    \/ rec.txHash = NullStr
    \/ rec.completedAt = NoNumber \/ rec.completedAt = 0
    \/ rec.signature.kind = "null"
    \/ rec.target = NullStr
    \/ rec.key = NullStr
    \/ rec.value = NullStr

(* publicClient.readContract(getConfig): the value, or "throw" when the RPC *)
(* fails or the target is not the DemoConfig contract.                      *)
readContract(target, k, rpc) ==
    IF rpc = "ok" /\ toLowerCase(target) = DemoConfigAddr /\ k \in ConfigKeys
    THEN getConfig(k) ELSE NoNumber

(* The value the live read of verifySetConfigOnchain returned (NoNumber     *)
(* when no read was made or it failed).                                     *)
ChainSeen(p, rpc) ==
    IF p.chainId # 1 \/ ~isAddress(p.target) \/ p.key \notin DecimalStrings
       \/ p.value \notin DecimalStrings
    THEN NoNumber
    ELSE readContract(p.target, BigInt(p.key), rpc)

(* Faulty variant of verifySetConfigOnchain: no check of the chain id.      *)
verifySetConfigOnchainAnyChain(p, rpc) ==
    IF ~isAddress(p.target) THEN "false"
    ELSE IF p.key \notin DecimalStrings \/ p.value \notin DecimalStrings THEN "throw"
    ELSE IF readContract(p.target, BigInt(p.key), rpc) = NoNumber THEN "throw"
    ELSE IF readContract(p.target, BigInt(p.key), rpc) = BigInt(p.value) THEN "true"
    ELSE "false"

(* verifySetConfigOnchain: "true", "false" or "throw".                      *)
verifySetConfigOnchain(p, rpc) ==
    IF p.chainId # 1 THEN "false"
    ELSE IF ~isAddress(p.target) THEN "false"
    ELSE IF p.key \notin DecimalStrings \/ p.value \notin DecimalStrings THEN "throw"
    ELSE IF readContract(p.target, BigInt(p.key), rpc) = NoNumber THEN "throw"
    ELSE IF readContract(p.target, BigInt(p.key), rpc) = BigInt(p.value) THEN "true"
    ELSE "false"

ServerSignatureCheck(rec) ==
    verifyMessage(rec.worker,
                  ServerBuildCompletionMessage(
                      [chainId |-> rec.chainId, agreementId |-> rec.agreementId,
                       target |-> rec.target, key |-> rec.key, value |-> rec.value,
                       txHash |-> rec.txHash, completedAt |-> rec.completedAt]),
                  rec.signature)

(* Faulty variants of ReadStatus: one answers from the stored flag, one     *)
(* leaves out the signature check, one answers the stored flag of a record  *)
(* that lacks a field, one answers completed when the chain read throws.    *)
ReadStatusTrustingFlag(found, rec, rpc) ==
    IF ~found THEN "pending"
    ELSE IF rec.status = "disputed" THEN "disputed"
    ELSE IF rec.status = "completed" THEN "completed"
    ELSE IF MissingFields(rec) THEN "pending"
    ELSE IF ServerSignatureCheck(rec) # "true" THEN "pending"
    ELSE IF verifySetConfigOnchain(rec, rpc) # "true" THEN "pending"
    ELSE "completed"

ReadStatusNoSignature(found, rec, rpc) ==
    IF ~found THEN "pending"
    ELSE IF rec.status = "disputed" THEN "disputed"
    ELSE IF MissingFields(rec) THEN "pending"
    ELSE IF verifySetConfigOnchain(rec, rpc) # "true" THEN "pending"
    ELSE "completed"

ReadStatusMissingKeepsFlag(found, rec, rpc) ==
    IF ~found THEN "pending"
    ELSE IF rec.status = "disputed" THEN "disputed"
    ELSE IF MissingFields(rec) THEN rec.status
    ELSE IF ServerSignatureCheck(rec) # "true" THEN "pending"
    ELSE IF verifySetConfigOnchain(rec, rpc) # "true" THEN "pending"
    ELSE "completed"

ReadStatusFailOpen(found, rec, rpc) ==
    IF ~found THEN "pending"
    ELSE IF rec.status = "disputed" THEN "disputed"
    ELSE IF MissingFields(rec) THEN "pending"
    ELSE IF ServerSignatureCheck(rec) # "true" THEN "pending"
    ELSE IF verifySetConfigOnchain(rec, rpc) = "false" THEN "pending"
    ELSE "completed"

(* The status GET /tasks/:chainId/:agreementId answers for a loaded record. *)
ReadStatus(found, rec, rpc) ==
    IF ~found THEN "pending"
    ELSE IF rec.status = "disputed" THEN "disputed"
    ELSE IF MissingFields(rec) THEN "pending"
    ELSE IF ServerSignatureCheck(rec) # "true" THEN "pending"
    ELSE IF verifySetConfigOnchain(rec, rpc) # "true" THEN "pending"
    ELSE "completed"

(* Whether the request reaches the live chain read, and so what it saw.     *)
ReadSeen(found, rec, rpc) ==
    IF found /\ rec.status # "disputed" /\ ~MissingFields(rec)
       /\ ServerSignatureCheck(rec) = "true"
    THEN ChainSeen(rec, rpc) ELSE NoNumber

(* Whether a dispute of key k set a row to disputed, and whether one was    *)
(* answered ok at all.                                                      *)
RowDisputed(k) == [key |-> k, stored |-> TRUE] \in disputes
DisputeAcked(k) == \E d \in disputes : d.key = k

(* A request: where it is, the record its SELECT loaded, and its response;  *)
(* `seen` is the value its live chain read returned, `disputedBefore`       *)
(* whether the row had been set to disputed before the SELECT and           *)
(* `disputeAcked` whether a dispute of the key had been answered ok before  *)
(* it (history).                                                            *)
IdleReq ==
    [ pc |-> "idle", code |-> 0, found |-> FALSE, rec |-> NoRecord(0, 0),
      status |-> "none", seen |-> NoNumber, disputedBefore |-> FALSE,
      disputeAcked |-> FALSE, list |-> {} ]

(* GET, first part: parameter checks and the SELECT.                        *)
GetSelect(c, chainId, agreementId) ==
    /\ req[c].pc # "loaded"
    /\ IF chainId <= 0 \/ agreementId < 0
       THEN req' = [req EXCEPT ![c] =
                [IdleReq EXCEPT !.pc = "done", !.code = 400,
                                !.rec = NoRecord(chainId, agreementId)]]
       ELSE LET k == StoreKey(chainId, agreementId) IN
            req' = [req EXCEPT ![c] =
                [IdleReq EXCEPT !.pc = "loaded",
                                !.found = k \in DOMAIN tasks,
                                !.rec = IF k \in DOMAIN tasks
                                        THEN rowToRecord(k, tasks[k])
                                        ELSE NoRecord(chainId, agreementId),
                                !.disputedBefore = RowDisputed(k),
                                !.disputeAcked = DisputeAcked(k)]]
    /\ UNCHANGED <<tasks, disputes, ledgerVars, config, bridgeVars, sample>>

(* Faulty variant of CacheCompleted: the answer is written back whatever it *)
(* is, so a failed check sets a cached completed back to pending.           *)
CacheAnswer(r, status) ==
    LET k == StoreKey(r.rec.chainId, r.rec.agreementId) IN
    IF r.found /\ status \in {"completed", "pending"} /\ k \in DOMAIN tasks
    THEN [tasks EXCEPT ![k].status = status]
    ELSE tasks

(* UPDATE tasks SET status='completed' WHERE chain_id=$1 AND agreement_id=$2 *)
CacheCompleted(r, status) ==
    LET k == StoreKey(r.rec.chainId, r.rec.agreementId) IN
    IF status = "completed" /\ r.rec.status # "completed" /\ k \in DOMAIN tasks
    THEN [tasks EXCEPT ![k].status = "completed"]
    ELSE tasks

(* GET, second part: the checks on the loaded record, the cache write and   *)
(* the response.                                                            *)
GetRespond(c, rpc) ==
    /\ req[c].pc = "loaded"
    /\ LET r == req[c]
           status == ReadStatus(r.found, r.rec, rpc)
       IN /\ tasks' = CacheCompleted(r, status)
          /\ req' = [req EXCEPT ![c] =
                [r EXCEPT !.pc = "done", !.code = 200, !.status = status,
                          !.seen = ReadSeen(r.found, r.rec, rpc)]]
    /\ UNCHANGED <<disputes, ledgerVars, config, bridgeVars, sample>>

(* GET /tasks, the admin list: the stored rows as records.  (The model      *)
(* holds fewer than the 200 rows of the LIMIT.)                             *)
ListTasks(c) ==
    /\ req[c].pc # "loaded"
    /\ req' = [req EXCEPT ![c] =
            [IdleReq EXCEPT !.pc = "done", !.code = 200,
                            !.list = { rowToRecord(k, tasks[k]) : k \in DOMAIN tasks }]]
    /\ UNCHANGED <<tasks, disputes, ledgerVars, config, bridgeVars, sample>>

(* The first validation of POST /tasks/complete that fails, or "".          *)
CompleteError(body) ==
    IF body.chainId <= 0 THEN "bad chainId"
    ELSE IF body.agreementId < 0 THEN "bad agreementId"
    ELSE IF ~isAddress(body.worker) THEN "bad worker address"
    ELSE IF ~isTxHash(body.txHash) THEN "bad txHash"
    ELSE IF body.completedAt <= 0 THEN "bad completedAt"
    ELSE IF ~isHex(body.signature) THEN "bad signature"
    ELSE IF ~isAddress(body.target) THEN "bad target address"
    ELSE IF toBigIntString(body.key) = "null" THEN "bad key"
    ELSE IF toBigIntString(body.value) = "null" THEN "bad value"
    ELSE ""

(* The row POST /tasks/complete writes: VALUES ($1,$2,'pending',...).       *)
TaskRow(body) ==
    [ status |-> "pending",
      worker |-> toLowerCase(body.worker),
      tx_hash |-> toLowerCase(body.txHash),
      completed_at |-> body.completedAt,
      signature |-> body.signature,
      target |-> toLowerCase(body.target),
      cfg_key |-> toBigIntString(body.key),
      cfg_value |-> toBigIntString(body.value) ]

(* Faulty variant of Upsert: on conflict the stored status is kept.         *)
UpsertKeepingStatus(body) ==
    LET k == StoreKey(body.chainId, body.agreementId) IN
    [kk \in DOMAIN tasks \cup {k} |->
        IF kk # k THEN tasks[kk]
        ELSE IF k \in DOMAIN tasks
             THEN [TaskRow(body) EXCEPT !.status = tasks[k].status]
             ELSE TaskRow(body)]

(* INSERT ... ON CONFLICT (chain_id, agreement_id) DO UPDATE SET ...        *)
Upsert(body) ==
    LET k == StoreKey(body.chainId, body.agreementId) IN
    [kk \in DOMAIN tasks \cup {k} |-> IF kk = k THEN TaskRow(body) ELSE tasks[kk]]

(* POST /tasks/complete: 400 and no write when a validation fails.         *)
RecordCompletion(body) ==
    /\ tasks' = IF CompleteError(body) # "" THEN tasks ELSE Upsert(body)
    /\ UNCHANGED <<req, disputes, ledgerVars, config, bridgeVars, sample>>

(* Faulty variant of DisputeUpdate: the UPDATE has no WHERE on the key's    *)
(* agreement, so it marks every row once the key's row exists.              *)
DisputeUpdateAllKeys(k) ==
    IF k \in DOMAIN tasks
    THEN [kk \in DOMAIN tasks |-> [tasks[kk] EXCEPT !.status = "disputed"]]
    ELSE tasks

(* UPDATE tasks SET status='disputed' WHERE chain_id=$1 AND agreement_id=$2 *)
DisputeUpdate(k) ==
    IF k \in DOMAIN tasks THEN [tasks EXCEPT ![k].status = "disputed"] ELSE tasks

(* POST /tasks/dispute: 400 and no write for a bad chainId or agreementId.  *)
MarkDisputed(chainId, agreementId) ==
    /\ IF chainId <= 0 \/ agreementId < 0
       THEN UNCHANGED <<tasks, disputes>>
       ELSE /\ tasks' = DisputeUpdate(StoreKey(chainId, agreementId))
            /\ disputes' = disputes \cup
                   {[ key |-> StoreKey(chainId, agreementId),
                      stored |-> StoreKey(chainId, agreementId) \in DOMAIN tasks ]}
    /\ UNCHANGED <<req, ledgerVars, config, bridgeVars, sample>>

---------------------------------------------------------------------------
(* The Ledger: EscrowManagerMainnetDemo.                                    *)
Ids == 0..MaxAgreements
ConditionTypes == {1, 2}
Holders == {OwnerAddr, PayerAddr, PayeeAddr, MalloryAddr, EscrowAddr}

(* bytes: the length and, when there are 32 bytes, the uint256 they encode. *)
EmptyBytes == [len |-> 0, word |-> 0]
ShortBytes == [len |-> 1, word |-> 0]
abiEncode(n) == [len |-> 32, word |-> n]

NoAgreement ==
    [ payer |-> NullAddr, payee |-> NullAddr, token |-> NullAddr, amount |-> 0,
      createdAt |-> 0, deadline |-> 0,
      condition |-> [conditionType |-> 0, target |-> NullAddr, data |-> EmptyBytes],
      state |-> "None" ]

Event(name, id, info, value) == [name |-> name, id |-> id, info |-> info, value |-> value]
Receipt(op, caller, id, status, error, events) ==
    [op |-> op, caller |-> caller, id |-> id, status |-> status, error |-> error,
     events |-> events]
NoReceipt == Receipt("none", NullAddr, 0, "ok", "", <<>>)

Tick ==
    /\ now < MaxTime
    /\ now' = now + 1
    /\ UNCHANGED <<owner, nextId, agreements, conditionImpl, protocolFeeBps,
                   feeRecipient, balances, receipt, paid, forwarder,
                   signals, config, storeVars, bridgeVars, sample>>

Reverted(op, caller, id, error) ==
    /\ receipt' = Receipt(op, caller, id, "reverted", error, <<>>)
    /\ UNCHANGED <<now, owner, nextId, agreements, conditionImpl, protocolFeeBps,
                   feeRecipient, balances, paid, forwarder, signals>>

(* Faulty variant of setFeeConfig's checks: no onlyOwner.                   *)
SetFeeConfigErrorAnyCaller(caller, feeBps, recipient) ==
    IF feeBps > 500 THEN "fee too high"
    ELSE IF recipient = NullAddr THEN "recipient=0"
    ELSE ""

SetFeeConfigError(caller, feeBps, recipient) ==
    IF caller # owner THEN "OwnableUnauthorizedAccount"
    ELSE IF feeBps > 500 THEN "fee too high"
    ELSE IF recipient = NullAddr THEN "recipient=0"
    ELSE ""

SetFeeConfig(caller, feeBps, recipient) ==
    /\ IF SetFeeConfigError(caller, feeBps, recipient) # ""
       THEN Reverted("setFeeConfig", caller, 0, SetFeeConfigError(caller, feeBps, recipient))
       ELSE /\ protocolFeeBps' = feeBps
            /\ feeRecipient' = recipient
            /\ receipt' = Receipt("setFeeConfig", caller, 0, "ok", "",
                                  <<Event("FeeConfigSet", 0, recipient, feeBps)>>)
            /\ UNCHANGED <<now, owner, nextId, agreements, conditionImpl, balances,
                           paid, forwarder, signals>>
    /\ UNCHANGED <<config, storeVars, bridgeVars, sample>>

(* Faulty variant of SetConditionImplError: the null address is accepted.   *)
SetConditionImplErrorAllowsNull(caller, impl) ==
    IF caller # owner THEN "OwnableUnauthorizedAccount"
    ELSE ""

SetConditionImplError(caller, impl) ==
    IF caller # owner THEN "OwnableUnauthorizedAccount"
    ELSE IF impl = NullAddr THEN "impl=0"
    ELSE ""

SetConditionImpl(caller, conditionType, impl) ==
    /\ IF SetConditionImplError(caller, impl) # ""
       THEN Reverted("setConditionImpl", caller, 0, SetConditionImplError(caller, impl))
       ELSE /\ conditionImpl' = [conditionImpl EXCEPT ![conditionType] = impl]
            /\ receipt' = Receipt("setConditionImpl", caller, 0, "ok", "",
                                  <<Event("ConditionImplSet", 0, impl, conditionType)>>)
            /\ UNCHANGED <<now, owner, nextId, agreements, protocolFeeBps, feeRecipient,
                           balances, paid, forwarder, signals>>
    /\ UNCHANGED <<config, storeVars, bridgeVars, sample>>

(* Faulty variant of createAgreement's checks: a deadline not in the future *)
(* passes.                                                                  *)
CreateAgreementErrorNoDeadline(payee, wethAmount, deadline, condition) ==
    IF payee = NullAddr THEN "payee=0"
    ELSE IF ~(wethAmount > 0) THEN "amount=0"
    ELSE IF ~(condition.data.len > 0) THEN "cond.data=empty"
    ELSE IF conditionImpl[condition.conditionType] = NullAddr THEN "condition not set"
    ELSE ""

CreateAgreementError(payee, wethAmount, deadline, condition) ==
    IF payee = NullAddr THEN "payee=0"
    ELSE IF ~(wethAmount > 0) THEN "amount=0"
    ELSE IF ~(deadline > now) THEN "bad deadline"
    ELSE IF ~(condition.data.len > 0) THEN "cond.data=empty"
    ELSE IF conditionImpl[condition.conditionType] = NullAddr THEN "condition not set"
    ELSE ""

(* Faulty variant of the id counter: not advanced.                          *)
NextIdStuck(id) == id

(* nextId = nextId + 1                                                      *)
NextIdAfter(id) == id + 1

CreateAgreement(caller, payee, wethAmount, deadline, condition) ==
    /\ nextId \in Ids
    /\ IF CreateAgreementError(payee, wethAmount, deadline, condition) # ""
       THEN Reverted("createAgreement", caller, 0,
                     CreateAgreementError(payee, wethAmount, deadline, condition))
       ELSE /\ nextId' = NextIdAfter(nextId)
            /\ agreements' = [agreements EXCEPT ![nextId] =
                   [ payer |-> caller, payee |-> payee, token |-> "weth",
                     amount |-> wethAmount, createdAt |-> now, deadline |-> deadline,
                     condition |-> condition, state |-> "Created" ]]
            /\ receipt' = Receipt("createAgreement", caller, nextId, "ok", "",
                   << Event("AgreementCreated", nextId, payee, wethAmount),
                      Event("EscrowSignal", nextId, "", 0) >>)
            /\ signals' = signals \cup {[id |-> nextId, from |-> "createAgreement"]}
            /\ UNCHANGED <<now, owner, conditionImpl, protocolFeeBps, feeRecipient,
                           balances, paid, forwarder>>
    /\ UNCHANGED <<config, storeVars, bridgeVars, sample>>

(* Faulty variant of deposit's checks: no check of the state.               *)
DepositErrorAnyState(caller, id) ==
    IF caller # agreements[id].payer THEN "not payer"
    ELSE IF balances[caller] < agreements[id].amount
                               + (agreements[id].amount * protocolFeeBps) \div 10000
         THEN "SafeERC20FailedOperation"
    ELSE ""

(* Faulty variant of the fee: rounded up.                                   *)
FeeRoundedUp(a) == (a.amount * protocolFeeBps + 9999) \div 10000

(* Faulty variant of the fee: the rate in force when the agreement was      *)
(* created, which in SpecFees is the initial rate 0.                        *)
FeeAtCreation(a) == (a.amount * 0) \div 10000

Fee(a) == (a.amount * protocolFeeBps) \div 10000

DepositError(caller, id) ==
    IF agreements[id].state # "Created" THEN "bad state"
    ELSE IF caller # agreements[id].payer THEN "not payer"
    ELSE IF balances[caller] < agreements[id].amount + Fee(agreements[id])
         THEN "SafeERC20FailedOperation"
    ELSE ""

(* safeTransfer(from -> to, amount) on the WETH balances *)
Transfer(bal, from, to, amount) ==
    [h \in DOMAIN bal |->
        IF from = to THEN bal[h]
        ELSE IF h = from THEN bal[h] - amount
        ELSE IF h = to THEN bal[h] + amount
        ELSE bal[h]]

Deposit(caller, id) ==
    /\ IF DepositError(caller, id) # ""
       THEN Reverted("deposit", caller, id, DepositError(caller, id))
       ELSE LET a == agreements[id]
                fee == Fee(a)
                total == a.amount + fee
                afterPull == Transfer(balances, caller, EscrowAddr, total)
            IN /\ balances' = IF fee > 0
                              THEN Transfer(afterPull, EscrowAddr, feeRecipient, fee)
                              ELSE afterPull
               /\ agreements' = [agreements EXCEPT ![id].state = "Funded"]
               /\ receipt' = Receipt("deposit", caller, id, "ok", "",
                      << Event("Deposited", id, caller, fee),
                         Event("EscrowSignal", id, "", 0) >>)
               /\ signals' = signals \cup {[id |-> id, from |-> "deposit"]}
               /\ UNCHANGED <<now, owner, nextId, conditionImpl, protocolFeeBps,
                              feeRecipient, paid, forwarder>>
    /\ UNCHANGED <<config, storeVars, bridgeVars, sample>>

(* IEscrowCondition(cond).isSatisfied(target, data): "true", "false", or    *)
(* "revert" (TimeCondition's abi.decode of fewer than 32 bytes; a call to   *)
(* an address that holds no evaluator).  NeverConditionAddr stands for      *)
(* another implementation of the interface, one that answers false.         *)
isSatisfied(impl, target, data) ==
    IF impl = NeverConditionAddr THEN "false"
    ELSE IF impl # TimeConditionAddr THEN "revert"
    ELSE IF data.len < 32 THEN "revert"
    ELSE IF now >= data.word THEN "true" ELSE "false"

(* Faulty variants of ExecOutcome: one pays a Completed agreement again,    *)
(* one reverts instead of skipping, one goes on for a Created agreement,    *)
(* one does not ask the evaluator, one asks the evaluator that was          *)
(* registered when the agreement was created, one takes the deadline itself *)
(* as passed.                                                               *)
ExecOutcomeFirstEvaluator(id) ==
    LET a == agreements[id] IN
    IF a.state # "Funded" THEN "state!=Funded"
    ELSE IF now > a.deadline THEN "deadline passed"
    ELSE IF isSatisfied(TimeConditionAddr, a.condition.target, a.condition.data) = "revert"
         THEN "revert"
    ELSE IF isSatisfied(TimeConditionAddr, a.condition.target, a.condition.data) = "false"
         THEN "condition not satisfied"
    ELSE IF balances[EscrowAddr] < a.amount THEN "revert"
    ELSE "executed"

ExecOutcomeDeadlineInclusive(id) ==
    LET a == agreements[id] IN
    IF a.state # "Funded" THEN "state!=Funded"
    ELSE IF now >= a.deadline THEN "deadline passed"
    ELSE IF conditionImpl[a.condition.conditionType] = NullAddr THEN "condition missing"
    ELSE IF isSatisfied(conditionImpl[a.condition.conditionType],
                        a.condition.target, a.condition.data) = "revert" THEN "revert"
    ELSE IF isSatisfied(conditionImpl[a.condition.conditionType],
                        a.condition.target, a.condition.data) = "false"
         THEN "condition not satisfied"
    ELSE IF balances[EscrowAddr] < a.amount THEN "revert"
    ELSE "executed"

ExecOutcomeNoStateCheck(id) ==
    LET a == agreements[id] IN
    IF a.state \notin {"Funded", "Completed"} THEN "state!=Funded"
    ELSE IF now > a.deadline THEN "deadline passed"
    ELSE IF conditionImpl[a.condition.conditionType] = NullAddr THEN "condition missing"
    ELSE IF isSatisfied(conditionImpl[a.condition.conditionType],
                        a.condition.target, a.condition.data) = "revert" THEN "revert"
    ELSE IF isSatisfied(conditionImpl[a.condition.conditionType],
                        a.condition.target, a.condition.data) = "false"
         THEN "condition not satisfied"
    ELSE IF balances[EscrowAddr] < a.amount THEN "revert"
    ELSE "executed"

ExecOutcomeRevertOnSkip(id) ==
    LET a == agreements[id] IN
    IF a.state # "Funded" THEN "revert"
    ELSE IF now > a.deadline THEN "deadline passed"
    ELSE IF conditionImpl[a.condition.conditionType] = NullAddr THEN "condition missing"
    ELSE IF isSatisfied(conditionImpl[a.condition.conditionType],
                        a.condition.target, a.condition.data) = "revert" THEN "revert"
    ELSE IF isSatisfied(conditionImpl[a.condition.conditionType],
                        a.condition.target, a.condition.data) = "false"
         THEN "condition not satisfied"
    ELSE IF balances[EscrowAddr] < a.amount THEN "revert"
    ELSE "executed"

ExecOutcomeAcceptsCreated(id) ==
    LET a == agreements[id] IN
    IF a.state \notin {"Funded", "Created"} THEN "state!=Funded"
    ELSE IF now > a.deadline THEN "deadline passed"
    ELSE IF conditionImpl[a.condition.conditionType] = NullAddr THEN "condition missing"
    ELSE IF isSatisfied(conditionImpl[a.condition.conditionType],
                        a.condition.target, a.condition.data) = "revert" THEN "revert"
    ELSE IF isSatisfied(conditionImpl[a.condition.conditionType],
                        a.condition.target, a.condition.data) = "false"
         THEN "condition not satisfied"
    ELSE IF balances[EscrowAddr] < a.amount THEN "revert"
    ELSE "executed"

ExecOutcomeNoCondition(id) ==
    LET a == agreements[id] IN
    IF a.state # "Funded" THEN "state!=Funded"
    ELSE IF now > a.deadline THEN "deadline passed"
    ELSE IF conditionImpl[a.condition.conditionType] = NullAddr THEN "condition missing"
    ELSE IF balances[EscrowAddr] < a.amount THEN "revert"
    ELSE "executed"

(* Faulty variant of ExecOutcome: no check of the deadline.                 *)
ExecOutcomeNoDeadline(id) ==
    LET a == agreements[id] IN
    IF a.state # "Funded" THEN "state!=Funded"
    ELSE IF conditionImpl[a.condition.conditionType] = NullAddr THEN "condition missing"
    ELSE IF isSatisfied(conditionImpl[a.condition.conditionType],
                        a.condition.target, a.condition.data) = "revert" THEN "revert"
    ELSE IF isSatisfied(conditionImpl[a.condition.conditionType],
                        a.condition.target, a.condition.data) = "false"
         THEN "condition not satisfied"
    ELSE IF balances[EscrowAddr] < a.amount THEN "revert"
    ELSE "executed"

(* What executeIfSatisfied(id) does in the current state: the skip reason,  *)
(* "revert" (the evaluator call or the token transfer reverts), or          *)
(* "executed".                                                              *)
ExecOutcome(id) ==
    LET a == agreements[id] IN
    IF a.state # "Funded" THEN "state!=Funded"
    ELSE IF now > a.deadline THEN "deadline passed"
    ELSE IF conditionImpl[a.condition.conditionType] = NullAddr THEN "condition missing"
    ELSE IF isSatisfied(conditionImpl[a.condition.conditionType],
                        a.condition.target, a.condition.data) = "revert" THEN "revert"
    ELSE IF isSatisfied(conditionImpl[a.condition.conditionType],
                        a.condition.target, a.condition.data) = "false"
         THEN "condition not satisfied"
    ELSE IF balances[EscrowAddr] < a.amount THEN "revert"
    ELSE "executed"

(* Faulty variant of ExecEvents: a skip also emits the Signal.              *)
ExecEventsWithSignal(id) ==
    IF ExecOutcome(id) = "executed"
    THEN << Event("Executing", id, "", 0), Event("Completed", id, "", 0) >>
    ELSE << Event("ExecutionSkipped", id, ExecOutcome(id), 0),
            Event("EscrowSignal", id, "", 0) >>

ExecEvents(id) ==
    IF ExecOutcome(id) = "executed"
    THEN << Event("Executing", id, "", 0), Event("Completed", id, "", 0) >>
    ELSE << Event("ExecutionSkipped", id, ExecOutcome(id), 0) >>

(* The state executeIfSatisfied(id) leaves when it does not revert.         *)
ExecEffect(id) ==
    IF ExecOutcome(id) = "executed"
    THEN /\ agreements' = [agreements EXCEPT ![id].state = "Completed"]
         /\ balances' = Transfer(balances, EscrowAddr, agreements[id].payee,
                                 agreements[id].amount)
         /\ paid' = [paid EXCEPT ![id] = @ + 1]
    ELSE UNCHANGED <<agreements, balances, paid>>

ExecuteIfSatisfied(caller, id) ==
    /\ IF ExecOutcome(id) = "revert"
       THEN Reverted("executeIfSatisfied", caller, id, "revert")
       ELSE /\ ExecEffect(id)
            /\ receipt' = Receipt("executeIfSatisfied", caller, id, "ok", "", ExecEvents(id))
            /\ UNCHANGED <<now, owner, nextId, conditionImpl, protocolFeeBps,
                           feeRecipient, forwarder, signals>>
    /\ UNCHANGED <<config, storeVars, bridgeVars, sample>>

(* Faulty variant of the refunded sum: a fee is withheld from it.           *)
RefundAmountLessFee(id) == agreements[id].amount - Fee(agreements[id])

(* What refund sends to the payer.                                          *)
RefundAmount(id) == agreements[id].amount

(* Faulty variants of refund's checks: no deadline check; no state check.   *)
RefundErrorNoDeadline(id) ==
    IF agreements[id].state # "Funded" THEN "bad state"
    ELSE IF balances[EscrowAddr] < RefundAmount(id) THEN "SafeERC20FailedOperation"
    ELSE ""

RefundErrorAnyState(id) ==
    IF ~(now > agreements[id].deadline) THEN "deadline not reached"
    ELSE IF balances[EscrowAddr] < RefundAmount(id) THEN "SafeERC20FailedOperation"
    ELSE ""

(* Faulty variant of RefundError: refund asks for a registered evaluator    *)
(* that answers, as the payout does.                                        *)
RefundErrorNeedsEvaluator(id) ==
    IF agreements[id].state # "Funded" THEN "bad state"
    ELSE IF ~(now > agreements[id].deadline) THEN "deadline not reached"
    ELSE IF isSatisfied(conditionImpl[agreements[id].condition.conditionType],
                        agreements[id].condition.target,
                        agreements[id].condition.data) = "revert" THEN "condition failed"
    ELSE IF balances[EscrowAddr] < RefundAmount(id) THEN "SafeERC20FailedOperation"
    ELSE ""

RefundError(id) ==
    IF agreements[id].state # "Funded" THEN "bad state"
    ELSE IF ~(now > agreements[id].deadline) THEN "deadline not reached"
    ELSE IF balances[EscrowAddr] < RefundAmount(id) THEN "SafeERC20FailedOperation"
    ELSE ""

Refund(caller, id) ==
    /\ IF RefundError(id) # ""
       THEN Reverted("refund", caller, id, RefundError(id))
       ELSE /\ agreements' = [agreements EXCEPT ![id].state = "Refunded"]
            /\ balances' = Transfer(balances, EscrowAddr, agreements[id].payer,
                                    RefundAmount(id))
            /\ receipt' = Receipt("refund", caller, id, "ok", "",
                                  <<Event("Refunded", id, "", 0)>>)
            /\ UNCHANGED <<now, owner, nextId, conditionImpl, protocolFeeBps,
                           feeRecipient, paid, forwarder, signals>>
    /\ UNCHANGED <<config, storeVars, bridgeVars, sample>>

---------------------------------------------------------------------------
(* The Receiver: EscrowExecReceiver.                                        *)
(* Faulty variant of HandleReportError: no check of the caller.             *)
HandleReportErrorAnyCaller(caller, report) ==
    IF report.len < 32 THEN "BadReport"
    ELSE IF ExecOutcome(report.word) = "revert" THEN "revert"
    ELSE ""

HandleReportError(caller, report) ==
    IF caller # forwarder THEN "OnlyForwarder"
    ELSE IF report.len < 32 THEN "BadReport"
    ELSE IF ExecOutcome(report.word) = "revert" THEN "revert"
    ELSE ""

(* _handleReport, reached through onReport(metadata, report) and through    *)
(* onReport(report); `entry` names the entry point.                         *)
OnReport(caller, entry, report) ==
    /\ IF HandleReportError(caller, report) # ""
       THEN /\ Reverted(entry, caller, 0, HandleReportError(caller, report))
       ELSE LET id == report.word IN
            /\ ExecEffect(id)
            /\ receipt' = Receipt(entry, caller, id, "ok", "",
                   <<Event("ReportReceived", id, caller, 0)>> \o ExecEvents(id)
                   \o <<Event("EscrowExecutionAttempt", id, "", 0)>>)
            /\ UNCHANGED <<now, owner, nextId, conditionImpl, protocolFeeBps,
                           feeRecipient, forwarder, signals>>
    /\ UNCHANGED <<config, storeVars, sample>>

(* A call of the Receiver by any account.                                   *)
OnReportCall(caller, entry, report) ==
    /\ OnReport(caller, entry, report)
    /\ UNCHANGED bridgeVars

---------------------------------------------------------------------------
(* The Settlement Bridge: onLog of eth-condition/main.ts.                   *)
BridgeChainId == 1
Handlers == {"h1", "h2"}

(* The task object onLog parses from the response body.                     *)
ApiTask(r) == [r.rec EXCEPT !.status = r.status]
NoTask == ApiTask(IdleReq)

(* A run of onLog: where it is, the agreement id it decoded from the log    *)
(* (all it keeps of the log), the task it parsed, and what it returned.     *)
IdleHandler == [pc |-> "idle", id |-> 0, task |-> NoTask, outcome |-> ""]

(* Faulty variant of FetchKey: the request names agreement 1 whatever the   *)
(* log's id.                                                                *)
FetchKeyFixed(id) == StoreKey(BridgeChainId, 1)

(* The key in the url of the request,                                       *)
(* /tasks/${config.chainId}/${agreementId.toString()}.                      *)
FetchKey(id) == StoreKey(BridgeChainId, id)

(* onLog, up to the store's SELECT for GET /tasks/{chainId}/{id}: the id is *)
(* decoded from the log's topic and the request is sent.                    *)
OnLogFetch(h, log) ==
    /\ handlers[h].pc \in {"idle", "done"}
    /\ handlers' = [handlers EXCEPT ![h] =
           [IdleHandler EXCEPT !.pc = "fetching", !.id = log.id]]
    /\ LET k == FetchKey(log.id) IN
       req' = [req EXCEPT ![h] =
           [IdleReq EXCEPT !.pc = "loaded",
                           !.found = k \in DOMAIN tasks,
                           !.rec = IF k \in DOMAIN tasks
                                   THEN rowToRecord(k, tasks[k])
                                   ELSE NoRecord(k[1], k[2]),
                           !.disputedBefore = RowDisputed(k),
                           !.disputeAcked = DisputeAcked(k)]]
    /\ UNCHANGED <<tasks, disputes, ledgerVars, config, writes, delivered, sample>>

(* The request fails (sendRequest(..).result() throws: the exception leaves *)
(* onLog) or its body is not JSON ("skip: bad api json"); the store's       *)
(* answer, if one was on its way, is dropped.                               *)
OnLogBadResponse(h, kind) ==
    /\ handlers[h].pc = "fetching"
    /\ handlers' = [handlers EXCEPT ![h].pc = "done",
                                    ![h].outcome = IF kind = "unreachable"
                                                   THEN "exception"
                                                   ELSE "skip: bad api json"]
    /\ req' = [req EXCEPT ![h] = IdleReq]
    /\ UNCHANGED <<ledgerVars, config, tasks, disputes, writes, delivered, sample>>

(* const sigOk = verifyMessage({...}): viem's verifyMessage is an async     *)
(* function and onLog does not await it, so sigOk is the promise, not the   *)
(* boolean it settles to.                                                   *)
BridgeSigOk(task) ==
    [ promise |-> TRUE,
      settles |-> verifyMessage(task.worker, BridgeBuildCompletionMessage(task),
                                task.signature) ]

(* Variant of JsNot for an awaited value: the boolean the promise settles   *)
(* to.                                                                      *)
JsNotAwaited(v) == v.settles # "true"

(* JavaScript's !v: an object (a promise) is truthy.                        *)
JsNot(v) == IF v.promise THEN FALSE ELSE v.settles # "true"

(* What onLog does with the response: a skip, or "write".                   *)
BridgeDecision(r) ==
    IF r.code # 200 \/ r.status # "completed" THEN "skip: not completed"
    ELSE IF JsNot(BridgeSigOk(ApiTask(r))) THEN "skip: bad signature"
    ELSE "write"

(* onLog from the response to the signed report; the response is consumed.  *)
OnLogResume(h) ==
    /\ handlers[h].pc = "fetching"
    /\ req[h].pc = "done"
    /\ handlers' = [handlers EXCEPT ![h] =
           IF BridgeDecision(req[h]) = "write"
           THEN [@ EXCEPT !.pc = "reported", !.task = ApiTask(req[h])]
           ELSE [@ EXCEPT !.pc = "done", !.task = ApiTask(req[h]),
                          !.outcome = BridgeDecision(req[h])]]
    /\ req' = [req EXCEPT ![h] = IdleReq]
    /\ UNCHANGED <<ledgerVars, config, tasks, disputes, writes, delivered, sample>>

(* evmClient.writeReport: the payload is abi.encode(uint256 agreementId).   *)
OnLogWrite(h) ==
    /\ handlers[h].pc = "reported"
    /\ writes' = writes \cup {abiEncode(handlers[h].id)}
    /\ handlers' = [handlers EXCEPT ![h].pc = "done", ![h].outcome = "ok: wrote report"]
    /\ UNCHANGED <<ledgerVars, config, storeVars, delivered, sample>>

(* The workflow process dies between two steps of onLog; the answer to its  *)
(* request, if one was on its way, is dropped.                              *)
Crash(h) ==
    /\ handlers[h].pc \in {"fetching", "reported"}
    /\ handlers' = [handlers EXCEPT ![h] = IdleHandler]
    /\ req' = [req EXCEPT ![h] = IdleReq]
    /\ UNCHANGED <<ledgerVars, config, tasks, disputes, writes, delivered, sample>>

---------------------------------------------------------------------------
(* Initial state: the contracts as their constructors leave them, the       *)
(* payer holding WETH, an empty table, no request and no signal.            *)
HttpClients == {"c1"}
Clients == HttpClients \cup Handlers

InitLedger ==
    /\ now = 0
    /\ owner = OwnerAddr
    /\ nextId = 1
    /\ agreements = [i \in Ids |-> NoAgreement]
    /\ conditionImpl = [t \in ConditionTypes |-> NullAddr]
    /\ protocolFeeBps = 0
    /\ feeRecipient = OwnerAddr
    /\ balances = [h \in Holders |-> IF h = PayerAddr THEN PayerFunds ELSE 0]
    /\ receipt = NoReceipt
    /\ paid = [i \in Ids |-> 0]
    /\ forwarder = ForwarderAddr
    /\ signals = {}

InitStore ==
    /\ config = [k \in ConfigKeys |-> 0]
    /\ tasks = <<>>
    /\ req = [c \in Clients |-> IdleReq]
    /\ disputes = {}

InitBridge ==
    /\ handlers = [h \in Handlers |-> IdleHandler]
    /\ writes = {}
    /\ delivered = [i \in Ids |-> 0]

NoSample == [stage |-> "none"]

Init == InitLedger /\ InitStore /\ InitBridge /\ sample = NoSample

---------------------------------------------------------------------------
(* The worker's claim, as scripts/completeTask.ts posts it: the fields it   *)
(* signed, the worker address and the signature.                            *)
ClaimBody(fields, worker, signature) ==
    [ chainId |-> fields.chainId, agreementId |-> fields.agreementId,
      worker |-> worker, txHash |-> fields.txHash, completedAt |-> fields.completedAt,
      signature |-> signature, target |-> fields.target, key |-> fields.key,
      value |-> fields.value ]

CompleteTask(signer, worker, in) ==
    ClaimBody(SignerFields(in), worker, signMessage(signer, SignerMessage(SignerFields(in))))

(* A claim for another chain than mainnet, signed the same way by a client  *)
(* of its own.                                                              *)
OtherChainId == 5
OtherChainTask(signer, worker, in) ==
    ClaimBody([SignerFields(in) EXCEPT !.chainId = OtherChainId], worker,
              signMessage(signer,
                  SignerMessage([SignerFields(in) EXCEPT !.chainId = OtherChainId])))

ClaimInput(id, value) ==
    [agreementId |-> id, target |-> DemoConfigAddrMixed, key |-> "07", value |-> value,
     txHash |-> WorkTxMixed, completedAt |-> 5]

---------------------------------------------------------------------------
(* The Ledger and the Receiver alone, in three scenarios that share the     *)
(* operations and differ in the calls made: the life of the agreements and  *)
(* the money (SpecLedger), the owner's settings and the creation of         *)
(* agreements with every failing argument (SpecSetup), and the payout       *)
(* decision reached directly and through the Receiver (SpecPayout).         *)
AgreementIds == 1..MaxAgreements
TimeData(d) == [conditionType |-> 1, target |-> NullAddr, data |-> d]

NextLedger ==
    \/ Tick
    \/ \E f \in {250, 500} : SetFeeConfig(OwnerAddr, f, OwnerAddr)
    \/ SetConditionImpl(OwnerAddr, 1, TimeConditionAddr)
    \/ CreateAgreement(PayerAddr, PayeeAddr, 100, now + 1, TimeData(abiEncode(1)))
    \/ \E c \in {PayerAddr, MalloryAddr}, id \in AgreementIds : Deposit(c, id)
    \/ \E id \in AgreementIds : ExecuteIfSatisfied(MalloryAddr, id)
    \/ \E id \in AgreementIds : Refund(MalloryAddr, id)

SpecLedger == Init /\ [][NextLedger]_vars

(* setFeeConfig(feeBps, recipient) by caller: one good call and one call    *)
(* per check that fails.                                                    *)
FeeConfigCalls ==
    { <<OwnerAddr, 500, OwnerAddr>>, <<OwnerAddr, 250, PayerAddr>>,
      <<MalloryAddr, 500, OwnerAddr>>, <<OwnerAddr, 501, OwnerAddr>>,
      <<OwnerAddr, 500, NullAddr>> }

(* createAgreement(payee, amount, deadline - now, condition): the good      *)
(* calls and one call per require that fails.                               *)
CreateCalls ==
    { <<PayeeAddr, 100, 1, TimeData(abiEncode(1))>>,
      <<PayeeAddr, 100, 1, TimeData(ShortBytes)>>,
      <<NullAddr, 100, 1, TimeData(abiEncode(1))>>,
      <<PayeeAddr, 0, 1, TimeData(abiEncode(1))>>,
      <<PayeeAddr, 100, 0, TimeData(abiEncode(1))>>,
      <<PayeeAddr, 100, 1, TimeData(EmptyBytes)>>,
      <<PayeeAddr, 100, 1, [TimeData(abiEncode(1)) EXCEPT !.conditionType = 2]>> }

NextSetup ==
    \/ Tick
    \/ \E a \in FeeConfigCalls : SetFeeConfig(a[1], a[2], a[3])
    \/ \E c \in {OwnerAddr, MalloryAddr}, i \in {NullAddr, TimeConditionAddr} :
          SetConditionImpl(c, 1, i)
    \/ \E a \in CreateCalls : CreateAgreement(PayerAddr, a[1], a[2], now + a[3], a[4])
    \/ \E id \in AgreementIds : Deposit(PayerAddr, id)
    \/ \E id \in AgreementIds : ExecuteIfSatisfied(MalloryAddr, id)

SpecSetup == Init /\ [][NextSetup]_vars

NextPayout ==
    \/ Tick
    \/ SetConditionImpl(OwnerAddr, 1, TimeConditionAddr)
    \/ \E d \in {ShortBytes, abiEncode(1)} :
          CreateAgreement(PayerAddr, PayeeAddr, 100, now + 1, TimeData(d))
    \/ \E id \in AgreementIds : Deposit(PayerAddr, id)
    \/ \E id \in AgreementIds : ExecuteIfSatisfied(MalloryAddr, id)
    \/ \E id \in AgreementIds : Refund(MalloryAddr, id)
    \/ \E c \in {ForwarderAddr, MalloryAddr}, e \in {"onReport(bytes,bytes)", "onReport(bytes)"} :
          OnReportCall(c, e, abiEncode(1))
    \/ \E r \in {ShortBytes, abiEncode(2)} : OnReportCall(ForwarderAddr, "onReport(bytes,bytes)", r)

SpecPayout == Init /\ [][NextPayout]_vars

---------------------------------------------------------------------------
(* The Attestation Store alone, with the chain state it reads.              *)
StoreIds == 1..MaxBridged
StoreBodies ==
    UNION { { CompleteTask(PayeeAddr, PayeeAddrMixed, ClaimInput(id, v)),
              CompleteTask(MalloryAddr, PayeeAddr, ClaimInput(id, v)),
              ClaimBody(SignerFields(ClaimInput(id, v)), PayeeAddr,
                        signMessage(PayeeAddr,
                            BridgeBuildCompletionMessage(SignerFields(ClaimInput(id, v))))),
              ClaimBody(SignerFields(ClaimInput(id, v)), PayeeAddr, MalformedSig) }
            : id \in StoreIds, v \in {"1", "2"} }
    \cup { ClaimBody(SignerFields(ClaimInput(id, "1")), PayeeAddr, NotHexSig) : id \in StoreIds }
    \cup { ClaimBody(SignerFields(ClaimInput(id, "1")), NotHex, MalformedSig) : id \in StoreIds }
    \cup { CompleteTask(PayeeAddr, MalloryAddr, ClaimInput(id, "1")) : id \in StoreIds }
    \cup { OtherChainTask(PayeeAddr, PayeeAddr, ClaimInput(id, "1")) : id \in StoreIds }

NextStore ==
    \/ \E c \in HttpClients, ch \in {0, 1, OtherChainId}, id \in StoreIds :
          GetSelect(c, ch, id)
    \/ \E c \in HttpClients, rpc \in {"ok", "fail"} : GetRespond(c, rpc)
    \/ \E b \in StoreBodies : RecordCompletion(b)
    \/ \E ch \in {0, 1}, id \in StoreIds : MarkDisputed(ch, id)
    \/ \E v \in {1, 2} : SetConfig(7, v)

SpecStore == Init /\ [][NextStore]_vars

---------------------------------------------------------------------------
(* The Attestation Store started on a table that already exists (CREATE     *)
(* TABLE IF NOT EXISTS, ADD COLUMN IF NOT EXISTS): it holds one row, whose  *)
(* status is any of the three and in which one nullable column is NULL (or  *)
(* completed_at is 0).                                                      *)
LegacyKey == StoreKey(BridgeChainId, 1)
FullRow == TaskRow(CompleteTask(PayeeAddr, PayeeAddr, ClaimInput(1, "1")))
LegacyRows ==
    { [r EXCEPT !.status = st] :
        st \in {"pending", "completed", "disputed"},
        r \in { [FullRow EXCEPT !.worker = NullStr],
                [FullRow EXCEPT !.tx_hash = NullStr],
                [FullRow EXCEPT !.completed_at = NoNumber],
                [FullRow EXCEPT !.completed_at = 0],
                [FullRow EXCEPT !.signature = NullSig],
                [FullRow EXCEPT !.target = NullStr],
                [FullRow EXCEPT !.cfg_key = NullStr],
                [FullRow EXCEPT !.cfg_value = NullStr],
                [FullRow EXCEPT !.target = NullStr, !.cfg_key = NullStr,
                                !.cfg_value = NullStr] } }

InitLegacy ==
    /\ InitLedger /\ InitBridge /\ sample = NoSample
    /\ config = [k \in ConfigKeys |-> 0]
    /\ \E row \in LegacyRows : tasks = [k \in {LegacyKey} |-> row]
    /\ req = [c \in Clients |-> IdleReq]
    /\ disputes = {}

NextLegacy ==
    \/ \E c \in HttpClients : GetSelect(c, BridgeChainId, 1)
    \/ \E c \in HttpClients, rpc \in {"ok", "fail"} : GetRespond(c, rpc)
    \/ MarkDisputed(BridgeChainId, 1)
    \/ SetConfig(7, 1)

SpecLegacy == InitLegacy /\ [][NextLegacy]_vars

---------------------------------------------------------------------------
(* The Ledger with a registry that changes under its agreements: they are   *)
(* created while TimeCondition is the evaluator of type 1, and the owner    *)
(* replaces it by another evaluator, by an address that holds none, and     *)
(* back.                                                                    *)
RegistryConditions ==
    { [conditionType |-> 1, target |-> NullAddr, data |-> abiEncode(u)] : u \in {0, 2} }

NextRegistry ==
    \/ Tick
    \/ \E i \in {TimeConditionAddr, NeverConditionAddr, UnknownAddr} :
          SetConditionImpl(OwnerAddr, 1, i)
    \/ \E cond \in RegistryConditions :
          /\ conditionImpl[1] = TimeConditionAddr
          /\ CreateAgreement(PayerAddr, PayeeAddr, 100, now + 2, cond)
    \/ \E id \in Ids : Deposit(PayerAddr, id)
    \/ \E id \in Ids : ExecuteIfSatisfied(MalloryAddr, id)
    \/ \E id \in Ids : Refund(PayerAddr, id)

SpecRegistry == Init /\ [][NextRegistry]_vars

---------------------------------------------------------------------------
(* The Ledger with the paying call of executeIfSatisfied in its two halves, *)
(* before and after the token transfer.  A receipt of status "running" is   *)
(* the open transaction.  Transactions do not interleave, the function is   *)
(* nonReentrant and the token makes no call of its own, so while the        *)
(* transaction is open nothing else runs.                                   *)
Running == receipt.status = "running"

(* a.state = Executing; emit Executing(id)                                  *)
ExecEnter(caller, id) ==
    /\ ~Running
    /\ ExecOutcome(id) = "executed"
    /\ agreements' = [agreements EXCEPT ![id].state = "Executing"]
    /\ receipt' = Receipt("executeIfSatisfied", caller, id, "running", "",
                          <<Event("Executing", id, "", 0)>>)
    /\ UNCHANGED <<now, owner, nextId, conditionImpl, protocolFeeBps, feeRecipient,
                   balances, paid, forwarder, signals>>
    /\ UNCHANGED <<config, storeVars, bridgeVars, sample>>

(* Faulty variant of the state after the transfer: left as it was.          *)
StateAfterTransferUnset == "Executing"

(* a.state = Completed                                                      *)
StateAfterTransfer == "Completed"

(* weth.safeTransfer(a.payee, a.amount); a.state = Completed; emit          *)
(* Completed(id); return                                                    *)
ExecFinish ==
    /\ Running
    /\ LET id == receipt.id IN
       /\ balances' = Transfer(balances, EscrowAddr, agreements[id].payee,
                               agreements[id].amount)
       /\ agreements' = [agreements EXCEPT ![id].state = StateAfterTransfer]
       /\ paid' = [paid EXCEPT ![id] = @ + 1]
       /\ receipt' = Receipt("executeIfSatisfied", receipt.caller, id, "ok", "",
                             << Event("Executing", id, "", 0),
                                Event("Completed", id, "", 0) >>)
    /\ UNCHANGED <<now, owner, nextId, conditionImpl, protocolFeeBps, feeRecipient,
                   forwarder, signals>>
    /\ UNCHANGED <<config, storeVars, bridgeVars, sample>>

TxConditions ==
    { [conditionType |-> 1, target |-> NullAddr, data |-> abiEncode(u)] : u \in {0, 1} }

NextTx ==
    \/ ~Running /\ Tick
    \/ ~Running /\ SetConditionImpl(OwnerAddr, 1, TimeConditionAddr)
    \/ \E cond \in TxConditions :
          ~Running /\ CreateAgreement(PayerAddr, PayeeAddr, 100, now + 1, cond)
    \/ \E id \in Ids : ~Running /\ Deposit(PayerAddr, id)
    \/ \E id \in Ids : ~Running /\ Refund(MalloryAddr, id)
    \/ \E id \in Ids :
          ~Running /\ ExecOutcome(id) # "executed" /\ ExecuteIfSatisfied(MalloryAddr, id)
    \/ \E id \in Ids : ExecEnter(MalloryAddr, id)
    \/ ExecFinish

SpecTx == Init /\ [][NextTx]_vars

---------------------------------------------------------------------------
(* The whole system: one agreement, the store, two concurrent runs of the   *)
(* bridge's handler, and the forwarder delivering the bridge's writes.      *)

(* The forwarder calls onReport(metadata, report) with a report the bridge  *)
(* wrote; a report can arrive late and more than once.                      *)
Deliver(r) ==
    /\ r \in writes
    /\ delivered[r.word] < MaxDeliveries
    /\ OnReport(ForwarderAddr, "onReport(bytes,bytes)", r)
    /\ delivered' = [delivered EXCEPT ![r.word] = @ + 1]
    /\ UNCHANGED <<handlers, writes>>

BridgedConditions ==
    { [conditionType |-> 1, target |-> NullAddr, data |-> abiEncode(u)] : u \in {1} }

BridgedBodies ==
    { CompleteTask(PayeeAddr, PayeeAddrMixed, ClaimInput(id, "1")) : id \in StoreIds }
    \cup { CompleteTask(MalloryAddr, PayeeAddr, ClaimInput(id, "1")) : id \in StoreIds }

Next ==
    \/ Tick
    \/ SetConditionImpl(OwnerAddr, 1, TimeConditionAddr)
    \/ \E cond \in BridgedConditions :
          /\ nextId <= MaxBridged
          /\ CreateAgreement(PayerAddr, PayeeAddr, 100, now + 1, cond)
    \/ \E id \in StoreIds : Deposit(PayerAddr, id)
    \/ \E id \in StoreIds : ExecuteIfSatisfied(MalloryAddr, id)
    \/ \E r \in writes : Deliver(r)
    \/ SetConfig(7, 1)
    \/ \E b \in BridgedBodies : RecordCompletion(b)
    \/ \E h \in Handlers, s \in signals : OnLogFetch(h, s)
    \/ \E h \in Handlers : GetRespond(h, "ok")
    \/ \E h \in Handlers, kind \in {"unreachable", "not json"} : OnLogBadResponse(h, kind)
    \/ \E h \in Handlers : OnLogResume(h)
    \/ \E h \in Handlers : OnLogWrite(h)
    \/ \E h \in Handlers : Crash(h)

Spec == Init /\ [][Next]_vars

---------------------------------------------------------------------------
(* The end-to-end scenario: one agreement of amount 100 with no fee, the    *)
(* worker's claim, the target's state, the bridge and the forwarder, with   *)
(* no failure and no other caller.  A handler that has fetched runs on, the *)
(* store answers, and the forwarder delivers what was written.              *)
ScenarioConditions ==
    { [conditionType |-> 1, target |-> NullAddr, data |-> abiEncode(u)] : u \in {0, 2} }

NextE2E ==
    \/ Tick
    \/ SetConditionImpl(OwnerAddr, 1, TimeConditionAddr)
    \/ \E cond \in ScenarioConditions :
          /\ nextId <= MaxBridged
          /\ CreateAgreement(PayerAddr, PayeeAddr, 100, now + 1, cond)
    \/ \E id \in StoreIds : Deposit(PayerAddr, id)
    \/ SetConfig(7, 1)
    \/ \E id \in StoreIds :
          RecordCompletion(CompleteTask(PayeeAddr, PayeeAddrMixed, ClaimInput(id, "1")))
    \/ \E h \in Handlers, s \in signals : OnLogFetch(h, s)
    \/ \E h \in Handlers : GetRespond(h, "ok")
    \/ \E h \in Handlers : OnLogResume(h)
    \/ \E h \in Handlers : OnLogWrite(h)
    \/ \E r \in writes : Deliver(r)

SpecE2E ==
    /\ Init
    /\ [][NextE2E]_vars
    /\ \A h \in Handlers :
          /\ WF_vars(GetRespond(h, "ok"))
          /\ WF_vars(OnLogResume(h))
          /\ WF_vars(OnLogWrite(h))
    /\ WF_vars(\E r \in writes : Deliver(r))

---------------------------------------------------------------------------
(* The canonical message of one claim, built by the worker's script, by the *)
(* store from the row it keeps, and by the bridge from the store's answer.  *)
SampleInputs ==
    [ agreementId : {1, 2}, target : {DemoConfigAddr, DemoConfigAddrMixed},
      key : {"7", "07"}, value : {"1", "2"}, txHash : {WorkTx, WorkTxMixed},
      completedAt : {5, 6} ]

InitSample ==
    sample \in { [ stage |-> "input", in |-> i,
                   body |-> ClaimBody(SignerFields(i), NullAddr, NullSig),
                   signerMsg |-> <<>> ] : i \in SampleInputs }

(* scripts/completeTask.ts: build the message, sign it, make the body.      *)
SampleSign ==
    /\ sample.stage = "input"
    /\ sample' = [ sample EXCEPT
                     !.stage = "signed",
                     !.body = CompleteTask(PayeeAddr, PayeeAddr, sample.in),
                     !.signerMsg = SignerMessage(SignerFields(sample.in)) ]
    /\ UNCHANGED <<ledgerVars, config, storeVars, bridgeVars>>

SamplePost ==
    /\ sample.stage = "signed"
    /\ RecordCompletion(sample.body)

NextMsg == SampleSign \/ SamplePost

InitMsg == InitLedger /\ InitStore /\ InitBridge /\ InitSample

SpecMsg == InitMsg /\ [][NextMsg]_vars

(* The messages the store and the bridge build for a stored row.            *)
StoreMessageOf(k) == ServerBuildCompletionMessage(rowToRecord(k, tasks[k]))
BridgeMessageOf(k) ==
    BridgeBuildCompletionMessage(ApiTask([rec |-> rowToRecord(k, tasks[k]),
                                          status |-> "completed"]))

---------------------------------------------------------------------------
(* C4: a GET answers completed only if, in that request, the signer         *)
(* recovered from the loaded signature over the canonical message of the    *)
(* loaded fields is the loaded worker and the live read of the target at    *)
(* the loaded key returned the loaded value.                                *)
C4_CompletedOnlyAfterBothChecks ==
    \A c \in Clients :
        (req[c].pc = "done" /\ req[c].status = "completed") =>
            /\ req[c].rec.signature.kind = "ecdsa"
            /\ toLowerCase(recoverMessageAddress(
                   ServerBuildCompletionMessage(req[c].rec), req[c].rec.signature))
               = toLowerCase(req[c].rec.worker)
            /\ req[c].rec.value \in DecimalStrings
            /\ req[c].seen = BigInt(req[c].rec.value)

(* A completed answer for a record whose stored flag already said completed. *)
C4_Witness ==
    \E c \in Clients :
        /\ req[c].pc = "done" /\ req[c].status = "completed"
        /\ req[c].rec.status = "completed"

(* C5: once a row has been set to disputed, no GET that starts later        *)
(* answers completed for its key.                                           *)
C5_DisputedTerminal ==
    \A c \in Clients :
        (req[c].pc = "done" /\ req[c].disputedBefore) => req[c].status # "completed"

(* C6: the signer, the store and the bridge build the same message for the  *)
(* same claim, and the store and the bridge accept the same signatures.     *)
C6_SameMessage ==
    \A k \in DOMAIN tasks :
        sample.stage = "signed" =>
            /\ StoreMessageOf(k) = sample.signerMsg
            /\ BridgeMessageOf(k) = sample.signerMsg
            /\ verifyMessage(tasks[k].worker, StoreMessageOf(k), tasks[k].signature)
               = verifyMessage(tasks[k].worker, BridgeMessageOf(k), tasks[k].signature)

---------------------------------------------------------------------------
(* The Receiver's two entry points, and the event executeIfSatisfied emits  *)
(* when it skips.                                                           *)
ReportEntries == {"onReport(bytes,bytes)", "onReport(bytes)"}
Skipped(id, reason) == Event("ExecutionSkipped", id, reason, 0)
InEvents(e, events) == \E i \in DOMAIN events : events[i] = e

(* C1, as stated: an agreement is Completed only after the bridge wrote a   *)
(* report for its id and the Receiver took delivery of it.                  *)
C1_ReleaseOnlyAfterVerification ==
    \A id \in Ids :
        agreements[id].state = "Completed" =>
            abiEncode(id) \in writes /\ delivered[id] >= 1

(* C1, amended: an agreement becomes Completed only in a call of            *)
(* executeIfSatisfied, made directly by any account or by the Receiver for  *)
(* the forwarder, while it is Funded, its deadline has not passed and its   *)
(* registered evaluator answers true; that call moves its amount to the     *)
(* payee.                                                                   *)
C1_ReleaseOnlyWhenConditionHolds ==
    [][\A id \in Ids :
         (agreements'[id].state = "Completed" /\ agreements[id].state # "Completed") =>
            /\ agreements[id].state = "Funded"
            /\ now <= agreements[id].deadline
            /\ conditionImpl[agreements[id].condition.conditionType] # NullAddr
            /\ isSatisfied(conditionImpl[agreements[id].condition.conditionType],
                           agreements[id].condition.target,
                           agreements[id].condition.data) = "true"
            /\ receipt'.status = "ok"
            /\ receipt'.id = id
            /\ \/ receipt'.op = "executeIfSatisfied"
               \/ receipt'.op \in ReportEntries /\ receipt'.caller = forwarder
            /\ balances'[agreements[id].payee]
               = balances[agreements[id].payee] + agreements[id].amount
            /\ paid'[id] = paid[id] + 1]_vars

(* An agreement completed by a direct call of an account that is neither a  *)
(* party nor the forwarder, with no claim recorded and no report written.   *)
C1_Witness ==
    \E id \in Ids :
        /\ agreements[id].state = "Completed"
        /\ balances[PayeeAddr] = agreements[id].amount
        /\ receipt.op = "executeIfSatisfied" /\ receipt.caller = MalloryAddr
        /\ tasks = <<>> /\ writes = {}

(* C2: executeIfSatisfied moves an agreement's amount to the payee at most  *)
(* once, and a call on a Completed agreement, direct or through the         *)
(* Receiver, is a skip that leaves agreements and balances as they were (a  *)
(* step that changes the receipt is a call).                                *)
C2_IdempotentExecution ==
    [][\A id \in Ids :
         /\ paid'[id] <= 1
         /\ ( /\ agreements[id].state = "Completed"
              /\ receipt' # receipt
              /\ receipt'.op \in {"executeIfSatisfied"} \cup ReportEntries
              /\ receipt'.id = id
              /\ receipt'.status = "ok" )
            => /\ InEvents(Skipped(id, "state!=Funded"), receipt'.events)
               /\ agreements' = agreements
               /\ balances' = balances
               /\ paid' = paid]_vars

(* A second call on a paid agreement was skipped.                           *)
C2_Witness ==
    \E id \in Ids :
        /\ agreements[id].state = "Completed" /\ paid[id] = 1
        /\ receipt.op = "executeIfSatisfied" /\ receipt.id = id
        /\ receipt.events = <<Skipped(id, "state!=Funded")>>

(* C3: however often the bridge handles the signals of an agreement, and    *)
(* however often and late its report is delivered, the payee is paid at     *)
(* most once, and a delivery for a Completed agreement is accepted and ends *)
(* in a skip.                                                               *)
C3_SafeRedelivery ==
    [][\A id \in StoreIds :
         /\ paid'[id] <= 1
         /\ (delivered'[id] = delivered[id] + 1 /\ agreements[id].state = "Completed")
            => /\ receipt'.status = "ok"
               /\ receipt'.caller = forwarder
               /\ InEvents(Skipped(id, "state!=Funded"), receipt'.events)
               /\ agreements' = agreements
               /\ balances' = balances]_vars

(* Both runs of the handler wrote a report for the agreement, the report    *)
(* was delivered twice, and the second delivery was skipped.                *)
C3_Witness ==
    \E id \in StoreIds :
        /\ \A h \in Handlers :
              handlers[h].outcome = "ok: wrote report" /\ handlers[h].id = id
        /\ delivered[id] = 2 /\ paid[id] = 1
        /\ receipt.op \in ReportEntries
        /\ InEvents(Skipped(id, "state!=Funded"), receipt.events)

(* C8: the Receiver goes on to the Ledger only for the forwarder: a call of *)
(* either entry point by another address reverts with no event and no       *)
(* change of the Ledger, and the forwarder never changes.                   *)
C8_OnlyForwarder ==
    [][/\ forwarder' = forwarder
       /\ (receipt'.op \in ReportEntries /\ receipt'.status = "ok")
          => receipt'.caller = forwarder
       /\ (receipt'.op \in ReportEntries /\ receipt'.caller # forwarder)
          => /\ receipt'.status = "reverted"
             /\ receipt'.error = "OnlyForwarder"
             /\ receipt'.events = <<>>
             /\ agreements' = agreements
             /\ balances' = balances
             /\ paid' = paid]_vars

(* Another address called the Receiver for an agreement that a call of      *)
(* executeIfSatisfied would have paid, and the call reverted.               *)
C8_Witness ==
    /\ receipt.op \in ReportEntries
    /\ receipt.caller = MalloryAddr
    /\ receipt.error = "OnlyForwarder"
    /\ \E id \in Ids : ExecOutcome(id) = "executed"

(* The scenario of C7 at the moment handler h has sent its request for      *)
(* agreement id: the agreement (amount 100, no fee) is Funded, the record   *)
(* the store loaded carries a signature of its worker over its fields, the  *)
(* target holds the claimed value at the claimed key, and no report has     *)
(* been written yet.                                                        *)
Processing(h, id) ==
    /\ handlers[h].pc = "fetching" /\ handlers[h].id = id
    /\ req[h].pc = "loaded" /\ req[h].found
    /\ ServerSignatureCheck(req[h].rec) = "true"
    /\ ChainSeen(req[h].rec, "ok") = BigInt(req[h].rec.value)
    /\ agreements[id].state = "Funded"
    /\ agreements[id].amount = 100 /\ protocolFeeBps = 0
    /\ writes = {}

PaidOut(id) ==
    /\ agreements[id].state = "Completed"
    /\ paid[id] = 1
    /\ balances[agreements[id].payee] >= 100

C9_WriteOnlyAfterOwnCheck ==
    \A h \in Handlers :
        (handlers[h].pc = "reported" \/ handlers[h].outcome = "ok: wrote report")
            => BridgeSigOk(handlers[h].task).settles = "true"

(* C10: a run of the handler whose fetched record does not carry a          *)
(* signature of its worker does not go on to write; a report is written     *)
(* only by a run whose record does, and writing leaves the Ledger alone.    *)
C10_BadSignatureSkips ==
    [][/\ \A h \in Handlers :
             ServerSignatureCheck(handlers'[h].task) # "true" =>
                 /\ handlers'[h].pc # "reported"
                 /\ handlers'[h].outcome # "ok: wrote report"
       /\ writes' # writes =>
             /\ \E h \in Handlers :
                   /\ handlers[h].pc = "reported"
                   /\ ServerSignatureCheck(handlers[h].task) = "true"
                   /\ writes' = writes \cup {abiEncode(handlers[h].id)}
             /\ agreements' = agreements /\ balances' = balances]_vars

(* A run that fetched a record signed by someone else than its worker       *)
(* returned a skip, for a Funded agreement, and nothing was written.        *)
C10_Witness ==
    \E h \in Handlers :
        /\ handlers[h].outcome = "skip: not completed"
        /\ handlers[h].task.signature = signMessage(MalloryAddr,
               ServerBuildCompletionMessage(handlers[h].task))
        /\ handlers[h].task.worker = PayeeAddr
        /\ ServerSignatureCheck(handlers[h].task) = "false"
        /\ agreements[handlers[h].id].state = "Funded"
        /\ writes = {}

---------------------------------------------------------------------------
(* C11: a GET that loaded a record not marked disputed, whose signature is  *)
(* not its worker's (or whose recovery throws), or whose chain read failed  *)
(* or returned another value than the claimed one, answers 200 with status  *)
(* pending.                                                                 *)
C11_FailClosed ==
    \A c \in Clients :
        ( /\ req[c].pc = "done" /\ req[c].found
          /\ req[c].rec.status # "disputed"
          /\ \/ ServerSignatureCheck(req[c].rec) # "true"
             \/ req[c].seen = NoNumber
             \/ req[c].seen # BigInt(req[c].rec.value) )
        => req[c].code = 200 /\ req[c].status = "pending"

(* The worker's claim was read while the chain could not be read.           *)
C11_Witness ==
    \E c \in Clients :
        /\ req[c].pc = "done" /\ req[c].found
        /\ req[c].rec.chainId = 1
        /\ ServerSignatureCheck(req[c].rec) = "true"
        /\ getConfig(BigInt(req[c].rec.key)) = BigInt(req[c].rec.value)
        /\ req[c].seen = NoNumber
        /\ req[c].status = "pending"

(* C12, as stated: a GET that loaded an accepted claim, of whatever chain   *)
(* id, signed by its worker, while the target holds the claimed value at    *)
(* the claimed key, answers completed.                                      *)
C12_ValidClaimCompletes ==
    [][\A c \in Clients :
         ( /\ req[c].pc = "loaded" /\ req'[c].pc = "done"
           /\ req[c].found /\ req[c].rec.status # "disputed"
           /\ ServerSignatureCheck(req[c].rec) = "true"
           /\ readContract(req[c].rec.target, BigInt(req[c].rec.key), "ok")
              = BigInt(req[c].rec.value) )
         => req'[c].status = "completed"]_vars

(* C12, amended: a GET that loaded a claim not marked disputed answers      *)
(* completed exactly when the claim is for chain 1, its signature is its    *)
(* worker's and the live read of the target succeeded and returned the      *)
(* claimed value; it answers pending otherwise.                             *)
C12_ValidMainnetClaimCompletes ==
    \A c \in Clients :
        (req[c].pc = "done" /\ req[c].found /\ req[c].rec.status # "disputed")
        => /\ req[c].status \in {"completed", "pending"}
           /\ req[c].status = "completed"
              <=> /\ req[c].rec.chainId = 1
                  /\ ServerSignatureCheck(req[c].rec) = "true"
                  /\ req[c].seen = BigInt(req[c].rec.value)

(* A first read of the worker's claim answered completed.                   *)
C12_Witness ==
    \E c \in Clients :
        /\ req[c].pc = "done" /\ req[c].status = "completed"
        /\ req[c].rec.status = "pending"
        /\ req[c].rec.worker = PayeeAddr

(* C17: a GET that starts after a dispute of its key was answered ok        *)
(* answers disputed, whether or not the key had a row.                      *)
C17_DisputeUnconditional ==
    \A c \in Clients :
        (req[c].pc = "done" /\ req[c].disputeAcked) => req[c].status = "disputed"

(* A step that changes the receipt to one of `op` is a call of `op`.        *)
CallOf(op) == receipt' # receipt /\ receipt'.op = op
CallOk(op) == CallOf(op) /\ receipt'.status = "ok"

C14_RefundGuard ==
    [][CallOf("refund") =>
         LET a == agreements[receipt'.id] IN
         /\ receipt'.status = "ok" => a.state = "Funded" /\ now > a.deadline
         /\ (a.state # "Funded" \/ now <= a.deadline)
            => /\ receipt'.status = "reverted"
               /\ agreements' = agreements
               /\ balances' = balances]_vars

(* A second refund of a refunded agreement reverted.                        *)
C14_Witness ==
    /\ receipt.op = "refund" /\ receipt.status = "reverted"
    /\ receipt.error = "bad state"
    /\ agreements[receipt.id].state = "Refunded"

(* The sum of the amounts of the agreements in one of the states `states`.  *)
RECURSIVE AmountIn(_, _)
AmountIn(states, n) ==
    IF n < 0 THEN 0
    ELSE AmountIn(states, n - 1)
         + (IF agreements[n].state \in states THEN agreements[n].amount ELSE 0)

(* C15: a successful refund moves the agreement Funded -> Refunded and      *)
(* sends exactly its amount from the Ledger to the payer, nothing to or     *)
(* from the fee recipient; and while no fee has left the payer (the owner   *)
(* holds nothing) the payer holds the initial funds less the amounts of     *)
(* the Funded and Completed agreements, so a refund restores the deposit.   *)
C15_RefundAmount ==
    /\ [](balances[OwnerAddr] = 0
          => balances[PayerAddr]
             = PayerFunds - AmountIn({"Funded", "Completed"}, MaxAgreements))
    /\ [][CallOk("refund") =>
            LET id == receipt'.id
                a == agreements[id]
            IN /\ a.state = "Funded"
               /\ agreements' = [agreements EXCEPT ![id].state = "Refunded"]
               /\ balances' = Transfer(balances, EscrowAddr, a.payer, a.amount)
               /\ balances'[a.payer] = balances[a.payer] + a.amount
               /\ balances'[EscrowAddr] = balances[EscrowAddr] - a.amount
               /\ feeRecipient # a.payer
                  => balances'[feeRecipient] = balances[feeRecipient]]_vars

(* An agreement deposited at 250 bps was refunded: the payer is short of    *)
(* the fee, which the owner keeps.                                          *)
C15_Witness ==
    /\ receipt.op = "refund" /\ receipt.status = "ok"
    /\ agreements[receipt.id].state = "Refunded"
    /\ AmountIn({"Funded", "Completed"}, MaxAgreements) = 0
    /\ balances[OwnerAddr] = 2
    /\ balances[PayerAddr] = PayerFunds - 2

(* C18: a createAgreement that fails changes neither nextId nor any         *)
(* agreement; one that succeeds had a payee, a positive amount, a deadline  *)
(* after now, condition data and a registered evaluator, takes the next id, *)
(* stores the agreement there as Created with payer = caller and            *)
(* createdAt = now, leaves the other agreements alone and emits             *)
(* AgreementCreated and EscrowSignal for the id.                            *)
C18_CreateAgreement ==
    [][CallOf("createAgreement") =>
         IF receipt'.status = "reverted"
         THEN /\ nextId' = nextId /\ agreements' = agreements
              /\ receipt'.error \in {"payee=0", "amount=0", "bad deadline",
                                     "cond.data=empty", "condition not set"}
         ELSE LET id == nextId
                  a == agreements'[id]
              IN /\ receipt'.id = id /\ nextId' = id + 1
                 /\ agreements[id].state = "None"
                 /\ a.state = "Created" /\ a.payer = receipt'.caller
                 /\ a.createdAt = now
                 /\ a.payee # NullAddr /\ a.amount > 0 /\ a.deadline > now
                 /\ a.condition.data.len > 0
                 /\ conditionImpl[a.condition.conditionType] # NullAddr
                 /\ \A j \in Ids \ {id} : agreements'[j] = agreements[j]
                 /\ receipt'.events = << Event("AgreementCreated", id, a.payee, a.amount),
                                         Event("EscrowSignal", id, "", 0) >>]_vars

(* The second agreement was created, after a failed call.                   *)
C18_Witness ==
    /\ receipt.op = "createAgreement" /\ receipt.status = "ok" /\ receipt.id = 2
    /\ nextId = 3
    /\ agreements[2].state = "Created" /\ agreements[2].payer = PayerAddr
    /\ agreements[2].createdAt = now

(* C19: executeIfSatisfied on an id whose agreement is not Funded does not  *)
(* revert, emits ExecutionSkipped(id, "state!=Funded") and nothing else,    *)
(* and leaves agreements and balances as they were, whoever calls.          *)
C19_SkipUnlessFunded ==
    [][(CallOf("executeIfSatisfied") /\ agreements[receipt'.id].state # "Funded")
         => /\ receipt'.status = "ok"
            /\ receipt'.events = <<Skipped(receipt'.id, "state!=Funded")>>
            /\ agreements' = agreements
            /\ balances' = balances
            /\ paid' = paid]_vars

(* A third account's call on a refunded agreement was skipped.              *)
C19_Witness ==
    /\ receipt.op = "executeIfSatisfied" /\ receipt.caller = MalloryAddr
    /\ receipt.status = "ok"
    /\ agreements[receipt.id].state = "Refunded"
    /\ receipt.events = <<Skipped(receipt.id, "state!=Funded")>>

(* C20: an agreement changes only along None -> Created (createAgreement),  *)
(* Created -> Funded (deposit), Funded -> Completed (executeIfSatisfied,    *)
(* which emits Executing then Completed inside the one call) or             *)
(* Funded -> Refunded (refund), the last three changing the state field     *)
(* only; so a Completed or Refunded agreement never changes.                *)
C20_Lifecycle ==
    [][\A id \in Ids :
         agreements'[id] # agreements[id]
         => LET s == agreements[id].state
                t == agreements'[id].state
                stateOnly == agreements'[id] = [agreements[id] EXCEPT !.state = t]
            IN /\ receipt'.status = "ok"
               /\ \/ s = "None" /\ t = "Created" /\ receipt'.op = "createAgreement"
                  \/ s = "Created" /\ t = "Funded" /\ receipt'.op = "deposit" /\ stateOnly
                  \/ /\ s = "Funded" /\ t = "Completed" /\ stateOnly
                     /\ receipt'.op \in {"executeIfSatisfied"} \cup ReportEntries
                     /\ \E i, j \in DOMAIN receipt'.events :
                           /\ i < j
                           /\ receipt'.events[i] = Event("Executing", id, "", 0)
                           /\ receipt'.events[j] = Event("Completed", id, "", 0)
                  \/ s = "Funded" /\ t = "Refunded" /\ receipt'.op = "refund" /\ stateOnly]_vars

(* One agreement was paid out and the other refunded.                       *)
C20_Witness ==
    /\ agreements[1].state = "Completed"
    /\ agreements[2].state = "Refunded"
    /\ receipt.op = "refund" /\ receipt.status = "ok"

(* C16: a run of the handler that ended without writing returned one of    *)
(* the skip outcomes: no exception left onLog.                              *)
C16_FailClosedToSkip ==
    \A h \in Handlers :
        (handlers[h].pc = "done" /\ handlers[h].outcome # "ok: wrote report")
        => handlers[h].outcome \in {"skip: bad api json", "skip: not completed",
                                    "skip: bad signature"}

(* C21, as stated: a GET that loaded a record lacking a field answers       *)
(* pending, whatever the record's stored status.                            *)
C21_MissingFieldsPending ==
    \A c \in Clients :
        (req[c].pc = "done" /\ req[c].found /\ MissingFields(req[c].rec))
        => req[c].status = "pending"

(* C21, amended: a GET that loaded a record lacking a field answers         *)
(* disputed when the stored status is disputed and pending when it is       *)
(* pending or completed, and makes no chain read.                           *)
C21_MissingFieldsPendingUnlessDisputed ==
    \A c \in Clients :
        (req[c].pc = "done" /\ req[c].found /\ MissingFields(req[c].rec))
        => /\ req[c].code = 200
           /\ req[c].seen = NoNumber
           /\ req[c].status = IF req[c].rec.status = "disputed"
                              THEN "disputed" ELSE "pending"

(* A row stored as completed that lacks its target was read as pending.     *)
C21_Witness ==
    \E c \in Clients :
        /\ req[c].pc = "done" /\ req[c].found
        /\ req[c].rec.status = "completed"
        /\ req[c].rec.target = NullStr
        /\ req[c].status = "pending"

(* The step in which a GET finishes: its checks, cache write and response.  *)
GetFinishes(c) == req[c].pc = "loaded" /\ req'[c].pc = "done"

(* C25: the step that finishes a GET leaves a row whose stored status is    *)
(* disputed as disputed, also when the dispute was stored after the GET's   *)
(* SELECT.                                                                  *)
C25_CacheWriteKeepsDisputed ==
    [][\A c \in Clients :
         GetFinishes(c)
         => \A k \in DOMAIN tasks :
                tasks[k].status = "disputed" => tasks'[k].status = "disputed"]_vars

(* C30: a row is added or changed in three ways only: by a write that      *)
(* leaves it with status pending (POST /tasks/complete: whatever the claim  *)
(* and the row before), by a change of its status alone to disputed, or by  *)
(* a change of its status alone to completed in the step that finishes a    *)
(* GET of its key whose loaded record carried its worker's signature and    *)
(* whose live read returned the record's value.                             *)
C30_TrustOnlyFromRead ==
    [][\A k \in DOMAIN tasks' :
         (k \notin DOMAIN tasks \/ tasks'[k] # tasks[k])
         => \/ tasks'[k].status = "pending"
            \/ /\ k \in DOMAIN tasks
               /\ tasks'[k] = [tasks[k] EXCEPT !.status = "disputed"]
            \/ /\ k \in DOMAIN tasks
               /\ tasks'[k] = [tasks[k] EXCEPT !.status = "completed"]
               /\ \E c \in Clients :
                      /\ GetFinishes(c)
                      /\ StoreKey(req[c].rec.chainId, req[c].rec.agreementId) = k
                      /\ req'[c].status = "completed"
                      /\ ServerSignatureCheck(req[c].rec) = "true"
                      /\ req'[c].seen = BigInt(req[c].rec.value)]_vars

(* A row cached as completed was replaced by a new claim: stored pending.   *)
C30_Witness ==
    \E k \in DOMAIN tasks, c \in Clients :
        /\ tasks[k].status = "pending"
        /\ req[c].pc = "done" /\ req[c].status = "completed"
        /\ StoreKey(req[c].rec.chainId, req[c].rec.agreementId) = k
        /\ tasks[k].cfg_value # req[c].rec.value

(* C22: a deposit succeeds only when the caller is the agreement's payer    *)
(* and the agreement is Created; a deposit by another caller or on another  *)
(* state fails; and a failed deposit, the one whose token transfer fails    *)
(* included, leaves every agreement and every balance as it was.            *)
C22_DepositGuard ==
    [][CallOf("deposit") =>
         LET a == agreements[receipt'.id] IN
         /\ receipt'.status = "ok"
            => a.state = "Created" /\ receipt'.caller = a.payer
         /\ a.state # "Created"
            => receipt'.status = "reverted" /\ receipt'.error = "bad state"
         /\ (a.state = "Created" /\ receipt'.caller # a.payer)
            => receipt'.status = "reverted" /\ receipt'.error = "not payer"
         /\ (a.state = "Created" /\ receipt'.caller = a.payer
             /\ balances[a.payer]
                < a.amount + (a.amount * protocolFeeBps) \div 10000)
            => receipt'.status = "reverted"
         /\ receipt'.status = "reverted"
            => agreements' = agreements /\ balances' = balances]_vars

(* The payer's deposit failed in the token transfer: funds short of amount  *)
(* plus fee.                                                                *)
C22_Witness ==
    /\ receipt.op = "deposit" /\ receipt.status = "reverted"
    /\ receipt.error = "SafeERC20FailedOperation"
    /\ receipt.caller = agreements[receipt.id].payer
    /\ agreements[receipt.id].state = "Created"

(* C23: nextId starts at 1 and changes only by one, in a successful         *)
(* createAgreement that takes the old nextId, whose agreement was None; the *)
(* ids from 1 below nextId are the ones whose state is not None.            *)
C23_IdAllocation ==
    /\ [](/\ nextId >= 1
          /\ \A id \in Ids : (1 <= id /\ id < nextId) <=> agreements[id].state # "None")
    /\ [][/\ nextId' >= nextId
          /\ CallOk("createAgreement") <=> nextId' # nextId
          /\ nextId' # nextId
             => /\ nextId' = nextId + 1
                /\ receipt'.id = nextId
                /\ agreements[nextId].state = "None"
                /\ agreements'[nextId].state = "Created"]_vars

(* Both ids are allocated and id 0 is not.                                  *)
C23_Witness ==
    /\ nextId = 3
    /\ agreements[0].state = "None"
    /\ agreements[1].state # "None" /\ agreements[2].state # "None"

(* C24: setConditionImpl and setFeeConfig by another account than the owner *)
(* fail; a failed call changes neither the registry nor the fee             *)
(* configuration; these change only in a successful call of their setter    *)
(* by the owner; and protocolFeeBps <= 500 and feeRecipient is not null in  *)
(* every state.                                                             *)
C24_OwnerOnly ==
    /\ [](protocolFeeBps <= 500 /\ feeRecipient # NullAddr)
    /\ [][/\ ((CallOf("setConditionImpl") \/ CallOf("setFeeConfig"))
              /\ (receipt'.caller # owner \/ receipt'.status = "reverted"))
             => /\ receipt'.status = "reverted"
                /\ conditionImpl' = conditionImpl
                /\ protocolFeeBps' = protocolFeeBps
                /\ feeRecipient' = feeRecipient
          /\ conditionImpl' # conditionImpl
             => CallOk("setConditionImpl") /\ receipt'.caller = owner
          /\ (protocolFeeBps' # protocolFeeBps \/ feeRecipient' # feeRecipient)
             => /\ CallOk("setFeeConfig") /\ receipt'.caller = owner
                /\ receipt'.events
                   = <<Event("FeeConfigSet", 0, feeRecipient', protocolFeeBps')>>]_vars

(* A third account's setFeeConfig failed after the owner had set the fee.   *)
C24_Witness ==
    /\ receipt.op = "setFeeConfig" /\ receipt.caller = MalloryAddr
    /\ receipt.status = "reverted"
    /\ protocolFeeBps = 500

(* C26: executeIfSatisfied on a Funded agreement whose deadline has not     *)
(* passed does not abort.                                                   *)
C26_ConditionCheckNeverAborts ==
    [][(/\ CallOf("executeIfSatisfied")
        /\ agreements[receipt'.id].state = "Funded"
        /\ now <= agreements[receipt'.id].deadline)
       => receipt'.status = "ok"]_vars

(* C28: on a Funded agreement executeIfSatisfied skips with 'deadline       *)
(* passed' when now > deadline, whatever the condition; else with           *)
(* 'condition missing' when the type has no evaluator; else with 'condition *)
(* not satisfied' when the evaluator answers false; and pays when it        *)
(* answers true, also at now = deadline.  A skip leaves agreements and      *)
(* balances as they were.                                                   *)
C28_DecisionOrder ==
    [][(CallOf("executeIfSatisfied") /\ agreements[receipt'.id].state = "Funded")
       => LET id == receipt'.id
              a == agreements[id]
              impl == conditionImpl[a.condition.conditionType]
              skip(reason) ==
                  /\ receipt'.status = "ok"
                  /\ receipt'.events = <<Skipped(id, reason)>>
                  /\ agreements' = agreements /\ balances' = balances
          IN IF now > a.deadline THEN skip("deadline passed")
             ELSE IF impl = NullAddr THEN skip("condition missing")
             ELSE IF isSatisfied(impl, a.condition.target, a.condition.data) = "false"
                  THEN skip("condition not satisfied")
             ELSE IF isSatisfied(impl, a.condition.target, a.condition.data) = "true"
                  THEN /\ receipt'.status = "ok"
                       /\ agreements' = [agreements EXCEPT ![id].state = "Completed"]
                       /\ balances' = Transfer(balances, EscrowAddr, a.payee, a.amount)
             ELSE TRUE]_vars

(* A call after the deadline on an agreement whose condition holds was      *)
(* skipped with 'deadline passed'.                                          *)
C28_Witness ==
    /\ receipt.op = "executeIfSatisfied" /\ receipt.status = "ok"
    /\ receipt.events = <<Skipped(receipt.id, "deadline passed")>>
    /\ agreements[receipt.id].state = "Funded"
    /\ now > agreements[receipt.id].deadline
    /\ isSatisfied(conditionImpl[agreements[receipt.id].condition.conditionType],
                   agreements[receipt.id].condition.target,
                   agreements[receipt.id].condition.data) = "true"

(* C27: executeIfSatisfied on a Funded agreement whose deadline has not     *)
(* passed is decided by the evaluator registered for its type when the call *)
(* is made: it skips while an evaluator that answers false is registered,   *)
(* pays or skips by the time while TimeCondition is, and aborts while the   *)
(* registered address holds no evaluator.                                   *)
C27_EvaluatorAtCallTime ==
    [][(/\ CallOf("executeIfSatisfied")
        /\ agreements[receipt'.id].state = "Funded"
        /\ now <= agreements[receipt'.id].deadline)
       => LET id == receipt'.id
              a == agreements[id]
              impl == conditionImpl[a.condition.conditionType]
              skipped ==
                  /\ receipt'.status = "ok"
                  /\ receipt'.events = <<Skipped(id, "condition not satisfied")>>
                  /\ agreements' = agreements /\ balances' = balances
              paidOut ==
                  /\ receipt'.status = "ok"
                  /\ agreements'[id].state = "Completed"
                  /\ balances'[a.payee] = balances[a.payee] + a.amount
          IN /\ impl = NeverConditionAddr => skipped
             /\ (impl = TimeConditionAddr /\ a.condition.data.len = 32)
                => IF now >= a.condition.data.word THEN paidOut ELSE skipped
             /\ impl = UnknownAddr => receipt'.status = "reverted"]_vars

(* An agreement whose time has come was skipped, its type's evaluator       *)
(* having been replaced since it was created.                               *)
C27_Witness ==
    /\ receipt.op = "executeIfSatisfied" /\ receipt.status = "ok"
    /\ receipt.events = <<Skipped(receipt.id, "condition not satisfied")>>
    /\ agreements[receipt.id].state = "Funded"
    /\ conditionImpl[agreements[receipt.id].condition.conditionType] = NeverConditionAddr
    /\ agreements[receipt.id].condition.data.len = 32
    /\ now >= agreements[receipt.id].condition.data.word
    /\ now <= agreements[receipt.id].deadline

(* C29: an agreement is Executing only inside the open call of             *)
(* executeIfSatisfied on it, so in no state between operations; and the     *)
(* step that follows is the rest of that call, which leaves it Completed.   *)
C29_ExecutingTransient ==
    /\ [](\A id \in Ids :
              agreements[id].state = "Executing"
              => /\ Running /\ receipt.op = "executeIfSatisfied" /\ receipt.id = id)
    /\ [][\A id \in Ids :
              agreements[id].state = "Executing"
              => /\ agreements'[id].state = "Completed"
                 /\ receipt'.op = "executeIfSatisfied" /\ receipt'.id = id
                 /\ receipt'.status = "ok"]_vars

(* A paying call has finished: both events, the agreement Completed, no     *)
(* transaction open.                                                        *)
C29_Witness ==
    /\ ~Running
    /\ receipt.op = "executeIfSatisfied"
    /\ receipt.events = << Event("Executing", receipt.id, "", 0),
                           Event("Completed", receipt.id, "", 0) >>
    /\ agreements[receipt.id].state = "Completed"
    /\ \A id \in Ids : agreements[id].state # "Executing"

(* The EscrowSignal logs of a call's receipt, as the set of their ids.      *)
SignalsIn(events) ==
    { events[i].id : i \in { j \in DOMAIN events : events[j].name = "EscrowSignal" } }

(* C33: a call emits EscrowSignal exactly when it is a successful           *)
(* createAgreement or deposit, for the id it acted on and once; the first   *)
(* takes the id from None to Created and the second from Created to Funded, *)
(* so no Signal of an id is emitted once it is Funded or later.             *)
C33_SignalSources ==
    [][receipt' # receipt =>
         LET r == receipt'
             n == Cardinality({ j \in DOMAIN r.events : r.events[j].name = "EscrowSignal" })
         IN /\ IF r.status = "ok" /\ r.op \in {"createAgreement", "deposit"}
               THEN /\ n = 1 /\ SignalsIn(r.events) = {r.id}
                    /\ signals' = signals \cup {[id |-> r.id, from |-> r.op]}
               ELSE n = 0 /\ signals' = signals
            /\ \A id \in SignalsIn(r.events) :
                  \/ /\ r.op = "createAgreement"
                     /\ agreements[id].state = "None" /\ agreements'[id].state = "Created"
                  \/ /\ r.op = "deposit"
                     /\ agreements[id].state = "Created" /\ agreements'[id].state = "Funded"]_vars

(* A refund succeeded, emitting no Signal, on an agreement whose two        *)
(* Signals had been emitted.                                                *)
C33_Witness ==
    /\ receipt.op = "refund" /\ receipt.status = "ok"
    /\ SignalsIn(receipt.events) = {}
    /\ {s.from : s \in {t \in signals : t.id = receipt.id}} = {"createAgreement", "deposit"}
    /\ agreements[receipt.id].state = "Refunded"

(* C34: an agreement is paid out at most once and never both paid out and   *)
(* refunded; the Ledger's balance falls only by the amount of one Funded    *)
(* agreement that the step makes Completed (to the payee) or Refunded (to   *)
(* the payer); a Funded agreement becomes Completed only while              *)
(* now <= deadline and Refunded only once now > deadline, and Completed and *)
(* Refunded are final.                                                      *)
C34_PayoutXorRefund ==
    /\ [](\A id \in Ids :
             /\ paid[id] <= 1
             /\ paid[id] = 1 <=> agreements[id].state = "Completed")
    /\ [][/\ \A id \in Ids :
                LET s == agreements[id].state
                    t == agreements'[id].state
                IN /\ s \in {"Completed", "Refunded"} => t = s
                   /\ (s = "Funded" /\ now > agreements[id].deadline)
                      => t \in {"Funded", "Refunded"}
                   /\ (s = "Funded" /\ now <= agreements[id].deadline)
                      => t \in {"Funded", "Completed"}
          /\ balances'[EscrowAddr] < balances[EscrowAddr]
             => \E id \in Ids :
                   LET a == agreements[id]
                       to == IF agreements'[id].state = "Completed" THEN a.payee ELSE a.payer
                   IN /\ a.state = "Funded"
                      /\ agreements'[id].state \in {"Completed", "Refunded"}
                      /\ \A o \in Ids \ {id} : agreements'[o] = agreements[o]
                      /\ balances'[EscrowAddr] = balances[EscrowAddr] - a.amount
                      /\ balances'[to] = balances[to] + a.amount]_vars

(* One agreement was paid out and another has just been refunded; nothing   *)
(* is left in the Ledger.                                                   *)
C34_Witness ==
    /\ receipt.op = "refund" /\ receipt.status = "ok"
    /\ agreements[receipt.id].state = "Refunded" /\ paid[receipt.id] = 0
    /\ \E o \in Ids : agreements[o].state = "Completed" /\ paid[o] = 1
    /\ balances[EscrowAddr] = 0

(* C37: a registry entry that is not null is not null after any step; every *)
(* agreement that exists has a type whose entry is not null; and no call    *)
(* on an agreement that exists is skipped with "condition missing".         *)
C37_RegistryNeverCleared ==
    /\ [](\A id \in Ids :
             agreements[id].state # "None"
             => conditionImpl[agreements[id].condition.conditionType] # NullAddr)
    /\ [][/\ \A t \in ConditionTypes :
                conditionImpl[t] # NullAddr => conditionImpl'[t] # NullAddr
          /\ \A id \in Ids :
                (receipt' # receipt /\ agreements[id].state # "None")
                => ~InEvents(Skipped(id, "condition missing"), receipt'.events)]_vars

(* The owner's call to clear the entry of type 1 was rejected while a       *)
(* Funded agreement of that type was waiting.                               *)
C37_Witness ==
    /\ receipt.op = "setConditionImpl" /\ receipt.caller = owner
    /\ receipt.status = "reverted" /\ receipt.error = "impl=0"
    /\ conditionImpl[1] = TimeConditionAddr
    /\ \E id \in Ids : /\ agreements[id].state = "Funded"
                       /\ agreements[id].condition.conditionType = 1

---------------------------------------------------------------------------
(* The Ledger with the fee configuration changing between the operations on *)
(* the agreements.  Agreements are created under the initial configuration  *)
(* (rate 0, recipient the owner); the owner then sets a rate and a          *)
(* recipient, which may be any address but null, the Ledger's own and the   *)
(* payee's being two of them.                                               *)
FeeCondition == [conditionType |-> 1, target |-> NullAddr, data |-> abiEncode(1)]

NextFees ==
    \/ Tick
    \/ \E f \in {0, 250}, r \in {OwnerAddr, PayeeAddr, EscrowAddr} :
          SetFeeConfig(OwnerAddr, f, r)
    \/ SetConditionImpl(OwnerAddr, 1, TimeConditionAddr)
    \/ /\ protocolFeeBps = 0 /\ feeRecipient = OwnerAddr
       /\ CreateAgreement(PayerAddr, PayeeAddr, 100, now + 1, FeeCondition)
    \/ \E id \in Ids : Deposit(PayerAddr, id)
    \/ \E id \in Ids : ExecuteIfSatisfied(MalloryAddr, id)
    \/ \E id \in Ids : Refund(MalloryAddr, id)

SpecFees == Init /\ [][NextFees]_vars

(* C35, as stated: the Ledger holds exactly the amounts of the Funded       *)
(* agreements.                                                              *)
C35_Conservation ==
    balances[EscrowAddr] = AmountIn({"Funded"}, MaxAgreements)

(* C40: a successful deposit charges amount * protocolFeeBps / 10000 at the *)
(* rate, and pays it to the recipient, that are configured when deposit is  *)
(* called; a setFeeConfig changes the two configuration values only, so no  *)
(* agreement and no balance.                                                *)
C40_FeeAtDeposit ==
    [][/\ CallOk("deposit") =>
            LET id == receipt'.id
                a == agreements[id]
                fee == (a.amount * protocolFeeBps) \div 10000
            IN /\ receipt'.events[1] = Event("Deposited", id, a.payer, fee)
               /\ balances' = Transfer(Transfer(balances, a.payer, EscrowAddr, a.amount + fee),
                                       EscrowAddr, feeRecipient, fee)
               /\ protocolFeeBps' = protocolFeeBps /\ feeRecipient' = feeRecipient
       /\ CallOf("setFeeConfig") =>
            /\ agreements' = agreements /\ balances' = balances
            /\ nextId' = nextId /\ paid' = paid /\ conditionImpl' = conditionImpl
       /\ CallOk("setFeeConfig") =>
            /\ protocolFeeBps' = receipt'.events[1].value
            /\ feeRecipient' = receipt'.events[1].info]_vars

(* An agreement created at rate 0 with the owner as recipient was charged   *)
(* the fee of the rate set before its deposit, paid to the recipient set    *)
(* then; the rate has been set back to 0 since, and the fee stays paid.     *)
C40_Witness ==
    /\ receipt.op = "setFeeConfig" /\ receipt.status = "ok"
    /\ protocolFeeBps = 0 /\ feeRecipient = OwnerAddr
    /\ \E id \in Ids : agreements[id].state = "Funded"
    /\ balances[PayeeAddr] = 2 /\ balances[OwnerAddr] = 0
    /\ balances[EscrowAddr] = AmountIn({"Funded"}, MaxAgreements)
    /\ \A id \in Ids : agreements[id].state \in {"None", "Created", "Funded"}

---------------------------------------------------------------------------
(* The Ledger while everything around it changes: the owner replaces the    *)
(* evaluator (by an address that holds none, too) and the fee               *)
(* configuration, records are marked disputed in the store, the forwarder   *)
(* delivers reports.  Agreements are created while their deadline lies      *)
(* within the time the model runs.  Time passes, and a refund that can      *)
(* succeed is called at some point.                                         *)
RefundConditions ==
    { [conditionType |-> 1, target |-> NullAddr, data |-> d] :
        d \in {ShortBytes, abiEncode(1)} }

RefundOk(id) == RefundError(id) = "" /\ Refund(MalloryAddr, id)

NextRefund ==
    \/ Tick
    \/ \E i \in {TimeConditionAddr, UnknownAddr} : SetConditionImpl(OwnerAddr, 1, i)
    \/ \E r \in {OwnerAddr, EscrowAddr} : SetFeeConfig(OwnerAddr, 250, r)
    \/ \E cond \in RefundConditions :
          /\ now + 2 <= MaxTime
          /\ CreateAgreement(PayerAddr, PayeeAddr, 100, now + 1, cond)
    \/ \E id \in Ids : Deposit(PayerAddr, id)
    \/ \E id \in Ids : ExecuteIfSatisfied(MalloryAddr, id)
    \/ \E c \in {PayerAddr, MalloryAddr}, id \in Ids : Refund(c, id)
    \/ \E id \in StoreIds : MarkDisputed(BridgeChainId, id)
    \/ \E id \in StoreIds :
          OnReportCall(ForwarderAddr, "onReport(bytes,bytes)", abiEncode(id))

SpecRefund ==
    /\ Init
    /\ [][NextRefund]_vars
    /\ WF_vars(Tick)
    /\ \A id \in Ids : WF_vars(RefundOk(id))

(* C38: a refund called by anyone on a Funded agreement whose deadline has  *)
(* passed succeeds and leaves it Refunded, whatever the registry, the fee   *)
(* configuration, the store and the bridge hold; and, time passing and a    *)
(* refund that can succeed being called at some point, every Funded         *)
(* agreement becomes Completed or Refunded.                                 *)
C38_NoFundsLocked ==
    /\ [][(/\ CallOf("refund")
           /\ agreements[receipt'.id].state = "Funded"
           /\ now > agreements[receipt'.id].deadline)
          => /\ receipt'.status = "ok"
             /\ agreements'[receipt'.id].state = "Refunded"]_vars
    /\ \A id \in Ids :
          agreements[id].state = "Funded"
          ~> agreements[id].state \in {"Completed", "Refunded"}

(* A stranger's refund succeeded on an agreement whose payout aborts on     *)
(* every call (no evaluator at the registered address), the fees going to   *)
(* the Ledger itself, its record marked disputed in the store.              *)
C38_Witness ==
    /\ receipt.op = "refund" /\ receipt.status = "ok" /\ receipt.caller = MalloryAddr
    /\ agreements[receipt.id].state = "Refunded"
    /\ conditionImpl[1] = UnknownAddr
    /\ feeRecipient = EscrowAddr
    /\ disputes # {}

---------------------------------------------------------------------------
(* The Attestation Store with its admin list.                               *)
NextAdmin ==
    \/ NextStore
    \/ \E c \in HttpClients : ListTasks(c)

SpecAdmin == Init /\ [][NextAdmin]_vars

(* The records a finished request shows: the rows of a list, or the record  *)
(* of a single read with the status answered.                               *)
Shown(r) ==
    IF r.pc # "done" \/ r.code # 200 THEN {}
    ELSE IF r.status = "none" THEN r.list
    ELSE {ApiTask(r)}

(* C31, as stated: a response shows a record as completed only if the      *)
(* request read the chain for it and the record passes both checks against  *)
(* the chain as it is when the response is made.                            *)
C31_NoCompletedFromStorage ==
    [][\A c \in Clients :
          (req'[c] # req[c] /\ req'[c].pc = "done")
          => \A rec \in Shown(req'[c]) :
                rec.status = "completed"
                => /\ req'[c].seen # NoNumber
                   /\ ServerSignatureCheck(rec) = "true"
                   /\ verifySetConfigOnchain(rec, "ok") = "true"]_vars

(* The keys whose row a step adds or changes.                               *)
ChangedKeys == { k \in DOMAIN tasks' : k \notin DOMAIN tasks \/ tasks'[k] # tasks[k] }

(* C32: a step of the store adds or changes the row of at most one key and  *)
(* removes none, a finishing GET only the row of the key it read; the chain *)
(* state that readStatus consults does not change in such a step, so the    *)
(* record and the readStatus result of every other key stay as they were.   *)
(* A row that is added or changed in more than its status is, in every      *)
(* column, the row of one claim posted for that key.                        *)
C32_KeyIsolation ==
    [][/\ DOMAIN tasks \subseteq DOMAIN tasks'
       /\ Cardinality(ChangedKeys) <= 1
       /\ ChangedKeys # {} => config' = config
       /\ \A c \in Clients :
             GetFinishes(c)
             => ChangedKeys \subseteq {StoreKey(req[c].rec.chainId, req[c].rec.agreementId)}
       /\ \A k \in ChangedKeys :
             \/ /\ k \in DOMAIN tasks
                /\ tasks'[k] = [tasks[k] EXCEPT !.status = tasks'[k].status]
             \/ \E b \in StoreBodies :
                   /\ StoreKey(b.chainId, b.agreementId) = k
                   /\ CompleteError(b) = ""
                   /\ tasks'[k] = TaskRow(b)]_vars

(* Two keys hold rows; the row of one was marked disputed and the other is  *)
(* still pending.                                                           *)
C32_Witness ==
    /\ DOMAIN tasks = {StoreKey(BridgeChainId, 1), StoreKey(OtherChainId, 1)}
    /\ tasks[StoreKey(BridgeChainId, 1)].status = "disputed"
    /\ tasks[StoreKey(OtherChainId, 1)].status = "pending"
    /\ RowDisputed(StoreKey(BridgeChainId, 1))

---------------------------------------------------------------------------
(* The bridge with the Signals of two agreements and the attestation of the *)
(* first one only: claims are posted for agreement 1, the target holds the  *)
(* claimed value, and the handlers take the Signals in any order.           *)
BindingCondition == [conditionType |-> 1, target |-> NullAddr, data |-> abiEncode(1)]

NextBinding ==
    \/ SetConditionImpl(OwnerAddr, 1, TimeConditionAddr)
    \/ CreateAgreement(PayerAddr, PayeeAddr, 100, now + 1, BindingCondition)
    \/ \E id \in Ids : Deposit(PayerAddr, id)
    \/ SetConfig(7, 1)
    \/ RecordCompletion(CompleteTask(PayeeAddr, PayeeAddr, ClaimInput(1, "1")))
    \/ \E h \in Handlers, s \in signals : OnLogFetch(h, s)
    \/ \E h \in Handlers : GetRespond(h, "ok")
    \/ \E h \in Handlers : OnLogResume(h)
    \/ \E h \in Handlers : OnLogWrite(h)

SpecBinding == Init /\ [][NextBinding]_vars

(* C36: a handler that goes on to write, or has written, holds a task that  *)
(* is completed and carries the configured chain id and the id decoded from *)
(* the log; a write adds exactly the payload of the id the writing handler  *)
(* decoded from its log, and nothing else adds to the writes; so every      *)
(* payload written is the id of an agreement whose own attestation is       *)
(* stored.                                                                  *)
C36_SignalBinding ==
    /\ [](\A h \in Handlers :
             (handlers[h].pc = "reported" \/ handlers[h].outcome = "ok: wrote report")
             => /\ handlers[h].task.status = "completed"
                /\ handlers[h].task.chainId = BridgeChainId
                /\ handlers[h].task.agreementId = handlers[h].id)
    /\ [](\A w \in writes : StoreKey(BridgeChainId, w.word) \in DOMAIN tasks)
    /\ [][writes' # writes
          => \E h \in Handlers :
                /\ handlers[h].pc = "reported" /\ handlers'[h].pc = "done"
                /\ writes' = writes \cup {abiEncode(handlers[h].id)}]_vars

(* The Signal of agreement 2 was skipped while the attestation of           *)
(* agreement 1 is stored as completed and its write has been made.          *)
C36_Witness ==
    /\ writes = {abiEncode(1)}
    /\ tasks[StoreKey(BridgeChainId, 1)].status = "completed"
    /\ \E h \in Handlers :
          /\ handlers[h].pc = "done" /\ handlers[h].id = 2
          /\ handlers[h].outcome = "skip: not completed"

=============================================================================
